---------------------------- MODULE Spec2Model ----------------------------
(***************************************************************************)
(* Weather ETL (etl_weather.py, etl_weather_streaming.py,                  *)
(* utils/db_queries.py, check_duplicates_mysql.py).                        *)
(*                                                                         *)
(* Specifications over one set of variables:                               *)
(*   SpecStore     : the persistence operations called in any order        *)
(*                   against one weather_observations table;               *)
(*   SpecFetch     : one call of fetch_weather_data under its retry        *)
(*                   decorator;                                            *)
(*   SpecNormalize : one call of a normalizer on a payload;                *)
(*   Spec          : one run of run_etl_streaming over the site catalog;   *)
(*   LiveSpec      : Spec with its threads kept scheduled;                 *)
(*   SpecReport    : the result collection and the summary of a run over a *)
(*                   longer catalog.                                       *)
(*   SpecBatching  : the streaming loop of one site task for every payload *)
(*                   and batch size.                                       *)
(***************************************************************************)
EXTENDS Integers, Sequences, FiniteSets, Bags, TLC

(***************************************************************************)
(* Bounds of the model.                                                    *)
(***************************************************************************)
NumTimes == 2         \* observation_time ranges over 1..NumTimes
MaxClock == 2         \* statements the database executes in one behaviour
MaxBatchLen == 2      \* longest list handed to save_weather_batch_streaming

SiteIds == { 1, 2 }       \* the site_id of the sites that are written
ObsTimes == 1..NumTimes   \* the hours observed
RunIds == { 1, 2 }        \* two ingestion runs (one uuid4 each)

(***************************************************************************)
(* Python None / SQL NULL and a present value, as sets of at most one      *)
(* element so that a nullable column has one type.                         *)
(***************************************************************************)
None == {}
Some(x) == {x}

\* The value of an expression computed once: the element of a one-element set.
Only(S) == CHOOSE x \in S : TRUE

VARIABLES
    \* ---- the database and the last persistence call (SpecStore, Spec)
    store,      \* bag of rows of weather_observations
    db_now,     \* the database clock read by UTC_TIMESTAMP(3)
    dry_run,    \* self.dry_run
    program,    \* the script that is running against the database
    last,       \* the last persistence call: operation, input, result, store before
    \* ---- one call of fetch_weather_data (SpecFetch)
    fetch,      \* state of the retrying call
    \* ---- one run of run_etl_streaming (Spec)
    main,       \* the main thread: catalog, pool size, where it stands
    tasks,      \* process_site_streaming of each site
    stats,      \* self.stats
    \* ---- one call of a normalizer (SpecNormalize)
    norm        \* the payload handed to the normalizer and what came back

storeVars == <<store, db_now, dry_run, program, last>>
fetchVars == <<fetch>>
runVars == <<main, tasks, stats>>
normVars == <<norm>>
vars == <<store, db_now, dry_run, program, last, fetch, main, tasks, stats, norm>>

(***************************************************************************)
(* Payloads of the API and the records the two normalizers build.          *)
(***************************************************************************)
\* A timestamp string of the API that datetime.fromisoformat accepts.
IsoString(t) == << "iso", t >>

\* datetime.fromisoformat(text): the instant, or ValueError (ok = FALSE).
fromisoformat(text) ==
    IF text[1] = "iso"
    THEN [ ok |-> TRUE, value |-> text[2] ]
    ELSE [ ok |-> FALSE, value |-> 0 ]

\* Mutant: a short array repeats its last value.
ValueAtRepeatsLast(arr, i) ==
    IF i <= Len(arr) THEN arr[i]
    ELSE IF Len(arr) > 0 THEN arr[Len(arr)] ELSE None

\* arr[i] if i < len(arr) else None, for the 1-based position i.
ValueAt(arr, i) == IF i <= Len(arr) THEN arr[i] ELSE None

\* The archive answer of the API in run r: one reading for each hour.
\* The readings of run r are written 10+r, 80+r, r so that two runs differ.
ArchivePayload(run) ==
    [ hourly |->
        [ time                 |-> [ i \in 1..NumTimes |-> IsoString(i) ],
          temperature_2m       |-> [ i \in 1..NumTimes |-> Some(10 + run) ],
          relative_humidity_2m |-> [ i \in 1..NumTimes |-> Some(80 + run) ],
          precipitation        |-> [ i \in 1..NumTimes |-> Some(run) ] ] ]

\* A JSON answer with neither an hourly nor a current block.
ErrorPayload == [ error |-> TRUE ]

\* etl_weather.py _normalize_weather_data: the dict appended for one hour.
ArchiveRecord(site_id, observation_time, now_utc, temp_c, humidity_pct, precipitation_mm, raw_data, run_id) ==
    [ site_id             |-> site_id,
      source              |-> "open-meteo",
      observation_time    |-> observation_time,
      fetch_time          |-> now_utc,
      temp_c              |-> temp_c,
      humidity_pct        |-> humidity_pct,
      pressure_hpa        |-> None,
      weather_description |-> << "precipitation=", precipitation_mm, "mm" >>,
      raw_payload         |-> << "json", raw_data >>,
      ingestion_run_id    |-> run_id ]

\* etl_weather.py WeatherETL._normalize_weather_data: the list of records, or
\* ok = FALSE when it raises (no hourly block, no timestamps, bad timestamp).
normalize_weather_data(raw_data, site_id, run_id, now_utc) ==
    IF "hourly" \notin DOMAIN raw_data
    THEN [ ok |-> FALSE, records |-> <<>> ]
    ELSE LET hourly == raw_data.hourly
             times == hourly.time
         IN  IF times = <<>>
             THEN [ ok |-> FALSE, records |-> <<>> ]
             ELSE IF \E i \in 1..Len(times) : ~fromisoformat(times[i]).ok
             THEN [ ok |-> FALSE, records |-> <<>> ]
             ELSE [ ok |-> TRUE,
                    records |->
                      [ i \in 1..Len(times) |->
                          ArchiveRecord(site_id, fromisoformat(times[i]).value, now_utc,
                                        ValueAt(hourly.temperature_2m, i),
                                        ValueAt(hourly.relative_humidity_2m, i),
                                        ValueAt(hourly.precipitation, i),
                                        raw_data, run_id) ] ]

\* The records etl_weather.py hands to save_weather_data: run r normalizes its
\* payload at time r.
ArchiveRecords ==
    UNION { { normalize_weather_data(ArchivePayload(r), s, r, r).records[i] :
                i \in 1..NumTimes } : s \in SiteIds, r \in RunIds }

\* str(x) of a number, kept apart from the number itself.
PyStr(x) == << "str", x >>

\* The forecast answer of the API in run r: a current block and one reading
\* for each hour; bad_at > 0 puts an unparsable timestamp at that hour.
ForecastPayload(run, bad_at) ==
    [ current |->
        [ time                 |-> Some(IsoString(0)),
          temperature_2m       |-> Some(10 + run),
          relative_humidity_2m |-> Some(80 + run),
          wind_speed_10m       |-> Some(run) ],
      hourly |->
        [ time                 |-> [ i \in 1..NumTimes |->
                                       IF i = bad_at THEN << "garbled", i >>
                                                     ELSE IsoString(i) ],
          temperature_2m       |-> [ i \in 1..NumTimes |-> Some(10 + run) ],
          relative_humidity_2m |-> [ i \in 1..NumTimes |-> Some(80 + run) ],
          precipitation        |-> [ i \in 1..NumTimes |-> Some(run) ],
          wind_speed_10m       |-> [ i \in 1..NumTimes |-> Some(run) ] ] ]

NoException == [ type |-> "none", message |-> << >> ]

\* The ValueError of datetime.fromisoformat.
IsoFormatError(text) ==
    [ type |-> "ValueError", message |-> << "Invalid isoformat string", text >> ]

\* Mutant: the record of the current block is tagged hourly.
CurrentDictTaggedHourly(current, site_id, run_id, now_utc) ==
    [ site_id          |-> site_id,
      observation_time |-> fromisoformat(CHOOSE t \in current.time : TRUE).value,
      fetch_time       |-> now_utc,
      temp_c           |-> current.temperature_2m,
      humidity_pct     |-> current.relative_humidity_2m,
      precipitation_mm |-> PyStr(0),
      wind_speed_10m   |-> current.wind_speed_10m,
      ingestion_run_id |-> run_id,
      data_type        |-> "hourly" ]

\* normalize_weather_data_streaming: the dict yielded for the current block.
CurrentDict(current, site_id, run_id, now_utc) ==
    [ site_id          |-> site_id,
      observation_time |-> fromisoformat(CHOOSE t \in current.time : TRUE).value,
      fetch_time       |-> now_utc,
      temp_c           |-> current.temperature_2m,
      humidity_pct     |-> current.relative_humidity_2m,
      precipitation_mm |-> PyStr(0),
      wind_speed_10m   |-> current.wind_speed_10m,
      ingestion_run_id |-> run_id,
      data_type        |-> "current" ]

\* Mutant: the hourly dicts carry the id of site 1 whatever the site.
HourlyDictOfSiteOne(hourly, i, site_id, run_id, now_utc) ==
    LET precipitation_mm == ValueAt(hourly.precipitation, i)
    IN  [ site_id          |-> 1,
          observation_time |-> fromisoformat(hourly.time[i]).value,
          fetch_time       |-> now_utc,
          temp_c           |-> ValueAt(hourly.temperature_2m, i),
          humidity_pct     |-> ValueAt(hourly.relative_humidity_2m, i),
          precipitation_mm |-> IF precipitation_mm # None
                               THEN PyStr(CHOOSE x \in precipitation_mm : TRUE)
                               ELSE PyStr(0),
          wind_speed_10m   |-> ValueAt(hourly.wind_speed_10m, i),
          ingestion_run_id |-> run_id,
          data_type        |-> "hourly" ]

\* normalize_weather_data_streaming: the dict yielded for hour i.
HourlyDict(hourly, i, site_id, run_id, now_utc) ==
    LET precipitation_mm == ValueAt(hourly.precipitation, i)
    IN  [ site_id          |-> site_id,
          observation_time |-> fromisoformat(hourly.time[i]).value,
          fetch_time       |-> now_utc,
          temp_c           |-> ValueAt(hourly.temperature_2m, i),
          humidity_pct     |-> ValueAt(hourly.relative_humidity_2m, i),
          precipitation_mm |-> IF precipitation_mm # None
                               THEN PyStr(CHOOSE x \in precipitation_mm : TRUE)
                               ELSE PyStr(0),
          wind_speed_10m   |-> ValueAt(hourly.wind_speed_10m, i),
          ingestion_run_id |-> run_id,
          data_type        |-> "hourly" ]

\* The hours before the first timestamp that fromisoformat rejects.
ParsedPrefix(times) ==
    LET bad == { i \in 1..Len(times) : ~fromisoformat(times[i]).ok }
    IN  IF bad = {} THEN Len(times)
        ELSE (CHOOSE i \in bad : \A j \in bad : i <= j) - 1

\* etl_weather_streaming.py normalize_weather_data_streaming: the records the
\* generator yields, in order, and the exception it raises after them
\* (NoException when it returns).
normalize_weather_data_streaming(raw_data, site_id, run_id, now_utc) ==
    LET has_current == /\ "current" \in DOMAIN raw_data
                       /\ raw_data.current.time # None
        current_bad == /\ has_current
                       /\ ~fromisoformat(CHOOSE t \in raw_data.current.time : TRUE).ok
        first == IF has_current /\ ~current_bad
                 THEN << CurrentDict(raw_data.current, site_id, run_id, now_utc) >>
                 ELSE << >>
        times == IF "hourly" \in DOMAIN raw_data THEN raw_data.hourly.time ELSE << >>
        n == ParsedPrefix(times)
    IN  IF current_bad
        THEN [ records |-> << >>,
               exc |-> IsoFormatError(CHOOSE t \in raw_data.current.time : TRUE) ]
        ELSE [ records |-> first \o [ i \in 1..n |->
                                        HourlyDict(raw_data.hourly, i, site_id, run_id, now_utc) ],
               exc |-> IF n < Len(times) THEN IsoFormatError(times[n + 1])
                                         ELSE NoException ]

\* The hourly record of site, hour t and run r: run r normalizes its payload
\* at time r.
StreamingRecord(site, t, run) ==
    normalize_weather_data_streaming(ForecastPayload(run, 0), site, run, run).records[1 + t]

StreamingRecords == { StreamingRecord(s, t, r) : s \in SiteIds, t \in ObsTimes, r \in RunIds }


(***************************************************************************)
(* The table and the two INSERT ... ON DUPLICATE KEY UPDATE statements.    *)
(***************************************************************************)
\* The columns the two statements name (insert lists and update lists).
TableColumns ==
    { "site_id", "source", "observation_time", "fetch_time", "temp_c",
      "humidity_pct", "pressure_hpa", "weather_description", "raw_payload",
      "ingestion_run_id", "audit_updated_by", "audit_updated_dttm" }

\* The unique index of weather_observations (the table's DDL).
UniqueKey(row) == <<row["site_id"], row["source"], row["observation_time"]>>

\* The value a column takes when an INSERT does not name it (the table's DDL).
ColumnDefault(c) == None

\* etl_weather.py save_weather_data: the statement text.
InsertQuerySaveWeatherData ==
    [ columns      |-> { "site_id", "source", "observation_time", "fetch_time",
                         "temp_c", "humidity_pct", "pressure_hpa",
                         "weather_description", "raw_payload", "ingestion_run_id" },
      placeholders |-> { "site_id", "source", "observation_time", "fetch_time",
                         "temp_c", "humidity_pct", "pressure_hpa",
                         "weather_description", "raw_payload", "ingestion_run_id" },
      style        |-> "named",
      update       |-> { "fetch_time", "temp_c", "humidity_pct", "pressure_hpa",
                         "weather_description", "raw_payload", "ingestion_run_id" } ]

\* utils/db_queries.py INSERT_WEATHER_OBSERVATION (no pressure_hpa).
INSERT_WEATHER_OBSERVATION ==
    [ columns      |-> { "site_id", "source", "observation_time", "fetch_time",
                         "temp_c", "humidity_pct",
                         "weather_description", "raw_payload", "ingestion_run_id" },
      placeholders |-> { "site_id", "source", "observation_time", "fetch_time",
                         "temp_c", "humidity_pct",
                         "weather_description", "raw_payload", "ingestion_run_id" },
      style        |-> "named",
      update       |-> { "fetch_time", "temp_c", "humidity_pct",
                         "weather_description", "raw_payload", "ingestion_run_id" } ]

get_insert_weather_observation_query == INSERT_WEATHER_OBSERVATION

\* cursor.execute(insert_query, weather_data): the dict itself is the argument.
MappingArgs(weather_data) == [ shape |-> "mapping", map |-> weather_data ]

\* The streaming writers convert the dict to a 7-tuple before execute.
StreamingParams(weather_data) ==
    [ shape |-> "tuple",
      map   |-> << weather_data.site_id, weather_data.observation_time,
                   weather_data.temp_c, weather_data.humidity_pct,
                   weather_data.precipitation_mm, weather_data.ingestion_run_id,
                   weather_data.fetch_time >> ]

\* The statement is formatted with Python's % operator: %(name)s placeholders
\* need a mapping that has every name; a tuple raises TypeError.
Mogrify(query, args) ==
    IF query.style = "named"
    THEN args.shape = "mapping" /\ query.placeholders \subseteq DOMAIN args.map
    ELSE args.shape = "tuple" /\ Len(args.map) = Cardinality(query.placeholders)

\* VALUES (...): the row an insert would add.
NewRow(query, args) ==
    [ c \in TableColumns |->
        IF c \in query.columns THEN args.map[c] ELSE ColumnDefault(c) ]

\* Mutant: fetch_time = UTC_TIMESTAMP(3) instead of VALUES(fetch_time).
OnDuplicateKeyUpdateStampsFetchTime(row, new, query, now) ==
    [ c \in TableColumns |->
        IF c = "fetch_time" THEN now
        ELSE IF c \in query.update THEN new[c]
        ELSE IF c = "audit_updated_by" THEN Some("etl_job")
        ELSE IF c = "audit_updated_dttm" THEN Some(now)
        ELSE row[c] ]

\* Mutant: ingestion_run_id is left out of the update list.
OnDuplicateKeyUpdateKeepsRunId(row, new, query, now) ==
    [ c \in TableColumns |->
        IF c = "ingestion_run_id" THEN row[c]
        ELSE IF c \in query.update THEN new[c]
        ELSE IF c = "audit_updated_by" THEN Some("etl_job")
        ELSE IF c = "audit_updated_dttm" THEN Some(now)
        ELSE row[c] ]

\* Mutant: the update list has no audit columns.
OnDuplicateKeyUpdateWithoutAudit(row, new, query, now) ==
    [ c \in TableColumns |->
        IF c \in query.update THEN new[c] ELSE row[c] ]

\* ON DUPLICATE KEY UPDATE col = VALUES(col), ...,
\*   audit_updated_by = 'etl_job', audit_updated_dttm = UTC_TIMESTAMP(3)
OnDuplicateKeyUpdate(row, new, query, now) ==
    [ c \in TableColumns |->
        IF c \in query.update THEN new[c]
        ELSE IF c = "audit_updated_by" THEN Some("etl_job")
        ELSE IF c = "audit_updated_dttm" THEN Some(now)
        ELSE row[c] ]

Conflicting(table, new) ==
    { r \in BagToSet(table) : UniqueKey(r) = UniqueKey(new) }

\* Mutant: the statement adds its row without looking for a row of the same key.
ExecuteInsertAppends(table, query, args, now) ==
    table (+) SetToBag({ NewRow(query, args) })

\* The rows after the server has executed the statement for one VALUES row.
ExecuteInsert(table, query, args, now) ==
    LET new == NewRow(query, args)
        dup == Conflicting(table, new)
    IN  IF dup = {}
        THEN table (+) SetToBag({new})
        ELSE LET old == CHOOSE r \in dup : TRUE
             IN  (table (-) SetToBag({old}))
                 (+) SetToBag({OnDuplicateKeyUpdate(old, new, query, now)})

\* check_duplicates_mysql.py: GROUP BY the key HAVING cnt > 1.
check_duplicates(table) ==
    { k \in { UniqueKey(r) : r \in BagToSet(table) } :
        BagCardinality([ r \in { x \in BagToSet(table) : UniqueKey(x) = k }
                         |-> CopiesIn(r, table) ]) > 1 }

(***************************************************************************)
(* The persistence operations as functions of the table, the clock and the *)
(* outcome of each connection attempt.  A result is                        *)
(*   [ok, table, now, sent, connects] : sent counts the statements that    *)
(*   reached the server, connects the calls of get_db_connection.          *)
(***************************************************************************)
\* What the database does for one connection: pymysql.connect may raise, and
\* a statement that reached the server may still fail before the commit.
DbOutcomes == { "ok", "connect_error", "execute_error" }

\* The life of the connection of one 'with self.get_db_connection() as conn'
\* block: pymysql.connect raised and there is no connection, or the
\* connection was opened and conn.__exit__ closed it when the block was left
\* (by its end or by an exception).
ConnectRefused == << "connect_error" >>
OpenedThenClosed == << "open", "close" >>

\* Mutant: the connection is closed only after a commit.
ExecuteAndCommitClosesAfterCommit(table, now, query, args, db) ==
    IF db = "connect_error"
    THEN [ ok |-> FALSE, table |-> table, now |-> now, sent |-> 0, connects |-> 1,
           conn_log |-> ConnectRefused ]
    ELSE IF ~Mogrify(query, args)
    THEN [ ok |-> FALSE, table |-> table, now |-> now, sent |-> 0, connects |-> 1,
           conn_log |-> << "open" >> ]
    ELSE IF db = "execute_error"
    THEN [ ok |-> FALSE, table |-> table, now |-> now, sent |-> 1, connects |-> 1,
           conn_log |-> << "open" >> ]
    ELSE [ ok    |-> TRUE,
           table |-> ExecuteInsert(table, query, args, now + 1),
           now   |-> now + 1,
           sent  |-> 1,
           connects |-> 1,
           conn_log |-> OpenedThenClosed ]

\* with get_db_connection() as conn: cursor.execute(query, args); conn.commit()
\* inside try/except Exception.  UTC_TIMESTAMP(3) is the time of the statement.
ExecuteAndCommit(table, now, query, args, db) ==
    IF db = "connect_error"
    THEN [ ok |-> FALSE, table |-> table, now |-> now, sent |-> 0, connects |-> 1,
           conn_log |-> ConnectRefused ]
    ELSE IF ~Mogrify(query, args)
    THEN [ ok |-> FALSE, table |-> table, now |-> now, sent |-> 0, connects |-> 1,
           conn_log |-> OpenedThenClosed ]
    ELSE IF db = "execute_error"
    THEN [ ok |-> FALSE, table |-> table, now |-> now, sent |-> 1, connects |-> 1,
           conn_log |-> OpenedThenClosed ]
    ELSE [ ok    |-> TRUE,
           table |-> ExecuteInsert(table, query, args, now + 1),
           now   |-> now + 1,
           sent  |-> 1,
           connects |-> 1,
           conn_log |-> OpenedThenClosed ]

\* Mutant: the dry-run check is missing.
save_weather_data_ignores_dry_run(table, now, dry, weather_data, db) ==
    ExecuteAndCommit(table, now, InsertQuerySaveWeatherData,
                     MappingArgs(weather_data), db)

\* etl_weather.py WeatherETL.save_weather_data
save_weather_data(table, now, dry, weather_data, db) ==
    IF dry
    THEN [ ok |-> TRUE, table |-> table, now |-> now, sent |-> 0, connects |-> 0,
           conn_log |-> << >> ]
    ELSE ExecuteAndCommit(table, now, InsertQuerySaveWeatherData,
                          MappingArgs(weather_data), db)

\* Mutant: the except branch returns True.
save_weather_record_streaming_returns_true(table, now, dry, weather_data, db) ==
    IF dry
    THEN [ ok |-> TRUE, table |-> table, now |-> now, sent |-> 0, connects |-> 0,
           conn_log |-> << >> ]
    ELSE [ ExecuteAndCommit(table, now, get_insert_weather_observation_query,
                            StreamingParams(weather_data), db) EXCEPT !.ok = TRUE ]

\* etl_weather_streaming.py WeatherETLStreaming.save_weather_record_streaming
save_weather_record_streaming(table, now, dry, weather_data, db) ==
    IF dry
    THEN [ ok |-> TRUE, table |-> table, now |-> now, sent |-> 0, connects |-> 0,
           conn_log |-> << >> ]
    ELSE ExecuteAndCommit(table, now, get_insert_weather_observation_query,
                          StreamingParams(weather_data), db)

\* cursor.executemany(insert_query, params_list): one multi-row statement,
\* its rows applied in list order.
RECURSIVE ExecuteManyRows(_, _, _, _)
ExecuteManyRows(table, query, params_list, now) ==
    IF params_list = <<>>
    THEN table
    ELSE ExecuteManyRows(ExecuteInsert(table, query, Head(params_list), now),
                         query, Tail(params_list), now)

\* The try block of save_weather_batch_streaming: connect, build params_list,
\* executemany, commit.  ok = FALSE is the exception that starts the fallback.
BatchWrite(table, now, weather_data_batch, db) ==
    LET query == get_insert_weather_observation_query
        params_list == [ i \in 1..Len(weather_data_batch) |->
                            StreamingParams(weather_data_batch[i]) ]
    IN  IF db = "connect_error"
        THEN [ ok |-> FALSE, table |-> table, now |-> now, sent |-> 0, connects |-> 1,
           conn_log |-> ConnectRefused ]
        ELSE IF \E i \in 1..Len(params_list) : ~Mogrify(query, params_list[i])
        THEN [ ok |-> FALSE, table |-> table, now |-> now, sent |-> 0, connects |-> 1,
           conn_log |-> OpenedThenClosed ]
        ELSE IF db = "execute_error"
        THEN [ ok |-> FALSE, table |-> table, now |-> now, sent |-> 1, connects |-> 1,
           conn_log |-> OpenedThenClosed ]
        ELSE [ ok    |-> TRUE,
               table |-> ExecuteManyRows(table, query, params_list, now + 1),
               now   |-> now + 1,
               sent  |-> 1,
               connects |-> 1,
           conn_log |-> OpenedThenClosed ]

\* One pass of the loop of _save_weather_data_fallback: oks[i] tells whether
\* save_weather_record_streaming returned True for weather_data_list[i].
RECURSIVE FallbackLoop(_, _, _, _, _, _)
FallbackLoop(table, now, dry, weather_data_list, dbs, acc) ==
    IF weather_data_list = <<>>
    THEN [ table |-> table, now |-> now, oks |-> acc.oks, sent |-> acc.sent,
           connects |-> acc.connects, conn_log |-> acc.conn_log ]
    ELSE Only({ FallbackLoop(r.table, r.now, dry, Tail(weather_data_list), Tail(dbs),
                             [ oks  |-> Append(acc.oks, r.ok),
                               sent |-> acc.sent + r.sent,
                               connects |-> acc.connects + r.connects,
                               conn_log |-> acc.conn_log \o r.conn_log ]) :
                  r \in { save_weather_record_streaming(table, now, dry,
                                                        Head(weather_data_list),
                                                        Head(dbs)) } })

\* Mutant: successful += 1 for every record of the list.
CountEveryRecord(oks) == Len(oks)

\* successful += 1 for each record whose save returned True.
CountSuccessful(oks) == Cardinality({ i \in 1..Len(oks) : oks[i] })

\* Mutant: the fallback goes through the list a second time.
save_weather_data_fallback_twice(table, now, dry, weather_data_list, dbs) ==
    Only({ [ result |-> << CountSuccessful(f.oks), Len(weather_data_list) >>,
             table  |-> f.table,
             now    |-> f.now,
             oks    |-> f.oks,
             issued |-> weather_data_list \o weather_data_list,
             sent   |-> f.sent,
             connects |-> f.connects,
             conn_log |-> f.conn_log ] :
           f \in { FallbackLoop(table, now, dry, weather_data_list \o weather_data_list,
                                dbs \o dbs,
                                [ oks |-> <<>>, sent |-> 0, connects |-> 0,
                                  conn_log |-> << >> ]) } })

\* etl_weather_streaming.py WeatherETLStreaming._save_weather_data_fallback
save_weather_data_fallback(table, now, dry, weather_data_list, dbs) ==
    Only({ [ result |-> << CountSuccessful(f.oks), Len(weather_data_list) >>,
             table  |-> f.table,
             now    |-> f.now,
             oks    |-> f.oks,
             issued |-> weather_data_list,
             sent   |-> f.sent,
             connects |-> f.connects,
             conn_log |-> f.conn_log ] :
           f \in { FallbackLoop(table, now, dry, weather_data_list, dbs,
                                [ oks |-> <<>>, sent |-> 0, connects |-> 0,
           conn_log |-> << >> ]) } })

\* etl_weather_streaming.py WeatherETLStreaming.save_weather_batch_streaming
\* dbs[1] is the outcome of the batch connection, dbs[1 + i] the outcome of
\* the connection of the i-th single-record write of the fallback.
save_weather_batch_streaming(table, now, dry, weather_data_batch, dbs) ==
    LET n == Len(weather_data_batch)
        quiet == [ table |-> table, now |-> now, oks |-> <<>>, issued |-> <<>>,
                   sent |-> 0, connects |-> 0, conn_log |-> << >>,
                   batch_failed |-> FALSE ]
    IN  IF dry
        THEN quiet @@ [ result |-> << n, n >> ]
        ELSE IF n = 0
        THEN quiet @@ [ result |-> << 0, 0 >> ]
        ELSE Only({ IF w.ok
                    THEN [ result |-> << n, n >>, table |-> w.table, now |-> w.now,
                           oks |-> <<>>, issued |-> <<>>, sent |-> w.sent,
                           connects |-> w.connects, conn_log |-> w.conn_log,
                           batch_failed |-> FALSE ]
                    ELSE Only({ [ result |-> f.result, table |-> f.table, now |-> f.now,
                                  oks |-> f.oks, issued |-> f.issued,
                                  sent |-> w.sent + f.sent,
                                  connects |-> w.connects + f.connects,
                                  conn_log |-> w.conn_log \o f.conn_log,
                                  batch_failed |-> TRUE ] :
                                f \in { save_weather_data_fallback(w.table, w.now, dry,
                                                                   weather_data_batch,
                                                                   Tail(dbs)) } }) :
                    w \in { BatchWrite(table, now, weather_data_batch, Head(dbs)) } })

(***************************************************************************)
(* SpecStore: the persistence operations of one script, called in any      *)
(* order with any record and any behaviour of the database.                *)
(***************************************************************************)
NoCall ==
    [ op |-> "none", input |-> <<>>, result |-> << 0, 0 >>, before |-> EmptyBag,
      available |-> TRUE, batch_failed |-> FALSE, issued |-> <<>>, oks |-> <<>>,
      sent |-> 0, connects |-> 0,
           conn_log |-> << >> ]

\* The lists process_site_streaming hands to save_weather_batch_streaming:
\* consecutive records of one site and one run, at most MaxBatchLen of them.
StreamingBatches ==
    UNION { { [ k \in 1..p[2] |-> StreamingRecord(s, p[1] + k - 1, r) ] :
                s \in SiteIds, r \in RunIds } :
            p \in { q \in ObsTimes \X (0..MaxBatchLen) : q[1] + q[2] - 1 <= NumTimes } }

\* The table a script finds: empty, or one row loaded earlier by
\* etl_weather.py.
InitialTables ==
    { EmptyBag,
      SetToBag({ NewRow(InsertQuerySaveWeatherData,
                        MappingArgs(normalize_weather_data(ArchivePayload(1), 1, 1, 1).records[1])) }) }

FetchIdle ==
    [ pc |-> "idle", variant |-> "none", site_id |-> 0, run_id |-> 0,
      attempt_number |-> 0, requests |-> 0,
      responses |-> <<>>, waits |-> <<>>, outcome |-> [ kind |-> "none" ] ]

\* (success, message, records) before process_site_streaming has returned.
NoResult == [ success |-> FALSE, message |-> << >>, records |-> 0 ]

\* A site for which no task has been submitted.
TaskAbsent ==
    [ pc |-> "absent", fetch |-> FetchIdle, gen |-> << >>, gen_exc |-> NoException,
      batch |-> << >>, records_processed |-> 0, flushed |-> << >>,
      handed |-> << >>, result |-> NoResult ]

\* run_etl_streaming has not been called.
NoSummary == [ errors |-> << >>, more |-> 0 ]
RunIdle == [ pc |-> "idle", sites |-> << >>, max_workers |-> 1, streaming_batch_size |-> 1, summary |-> NoSummary ]

\* self.stats as __init__ leaves it.
InitialStats ==
    [ total_sites |-> 0, successful |-> 0, failed |-> 0, records_processed |-> 0,
      errors |-> << >> ]

\* No normalizer call is under observation.
NormIdle ==
    [ pc |-> "idle", shape |-> "none", raw_data |-> ErrorPayload, ok |-> TRUE,
      records |-> << >>, exc |-> NoException ]

NoRun ==
    /\ norm = NormIdle
    /\ main = RunIdle
    /\ tasks = [ s \in SiteIds |-> TaskAbsent ]
    /\ stats = InitialStats

InitStore ==
    /\ program \in { "etl_weather", "etl_weather_streaming" }
    /\ dry_run \in BOOLEAN
    /\ store \in InitialTables
    /\ db_now = 0
    /\ last = NoCall
    /\ fetch = FetchIdle
    /\ NoRun

\* WeatherETL.save_weather_data(weather_data)
SaveWeatherData(weather_data, db) ==
    /\ program = "etl_weather"
    /\ LET r == save_weather_data(store, db_now, dry_run, weather_data, db)
       IN  /\ r.now <= MaxClock
           /\ store' = r.table
           /\ db_now' = r.now
           /\ last' = [ op |-> "save_weather_data", input |-> << weather_data >>,
                        result |-> << IF r.ok THEN 1 ELSE 0, 1 >>,
                        before |-> store, available |-> db = "ok",
                        batch_failed |-> FALSE, issued |-> <<>>, oks |-> << r.ok >>,
                        sent |-> r.sent, connects |-> r.connects,
                        conn_log |-> r.conn_log ]
    /\ UNCHANGED << dry_run, program, fetch, main, tasks, stats, norm >>

\* WeatherETLStreaming.save_weather_record_streaming(weather_data)
SaveWeatherRecordStreaming(weather_data, db) ==
    /\ program = "etl_weather_streaming"
    /\ LET r == save_weather_record_streaming(store, db_now, dry_run, weather_data, db)
       IN  /\ r.now <= MaxClock
           /\ store' = r.table
           /\ db_now' = r.now
           /\ last' = [ op |-> "save_weather_record_streaming",
                        input |-> << weather_data >>,
                        result |-> << IF r.ok THEN 1 ELSE 0, 1 >>,
                        before |-> store, available |-> db = "ok",
                        batch_failed |-> FALSE, issued |-> <<>>, oks |-> << r.ok >>,
                        sent |-> r.sent, connects |-> r.connects,
                        conn_log |-> r.conn_log ]
    /\ UNCHANGED << dry_run, program, fetch, main, tasks, stats, norm >>

\* WeatherETLStreaming.save_weather_batch_streaming(weather_data_batch),
\* with the fallback it runs when the batch write raises.
SaveWeatherBatchStreaming(weather_data_batch, dbs) ==
    /\ program = "etl_weather_streaming"
    /\ LET r == save_weather_batch_streaming(store, db_now, dry_run,
                                             weather_data_batch, dbs)
       IN  /\ r.now <= MaxClock
           /\ store' = r.table
           /\ db_now' = r.now
           /\ last' = [ op |-> "save_weather_batch_streaming",
                        input |-> weather_data_batch,
                        result |-> r.result,
                        before |-> store,
                        available |-> \A i \in 1..Len(dbs) : dbs[i] = "ok",
                        batch_failed |-> r.batch_failed, issued |-> r.issued,
                        oks |-> r.oks, sent |-> r.sent, connects |-> r.connects,
                        conn_log |-> r.conn_log ]
    /\ UNCHANGED << dry_run, program, fetch, main, tasks, stats, norm >>

NextStore ==
    \/ \E weather_data \in ArchiveRecords, db \in DbOutcomes :
          SaveWeatherData(weather_data, db)
    \/ \E weather_data \in StreamingRecords, db \in DbOutcomes :
          SaveWeatherRecordStreaming(weather_data, db)
    \/ \E weather_data_batch \in StreamingBatches :
          \E dbs \in [ 1..(Len(weather_data_batch) + 1) -> { "ok", "connect_error" } ] :
             SaveWeatherBatchStreaming(weather_data_batch, dbs)

SpecStore == InitStore /\ [][NextStore]_vars

(***************************************************************************)
(* Properties of the persistence operations (SpecStore).                   *)
(***************************************************************************)
KeyColumns == { "site_id", "source", "observation_time" }

\* The fields of an ObservationRecord that are not part of its key.
DataColumns ==
    { "fetch_time", "temp_c", "humidity_pct", "pressure_hpa",
      "weather_description", "raw_payload", "ingestion_run_id" }

UpsertOneOps == { "save_weather_data", "save_weather_record_streaming" }

RowCount(table) == BagCardinality(table)

\* The rows of the table that carry the key of record rec.
RowsOfRecordKey(table, rec) ==
    { row \in BagToSet(table) :
        \A c \in KeyColumns \cap DOMAIN rec : row[c] = rec[c] }

\* The copies of rows of the table that carry the key of record rec.
CopiesOfRecordKey(table, rec) ==
    LET rows == RowsOfRecordKey(table, rec)
    IN  IF rows = {} THEN 0
        ELSE BagCardinality([ row \in rows |-> CopiesIn(row, table) ])

\* A row of the table holds every column value the record carries.
InStore(table, rec) ==
    \E row \in BagToSet(table) :
        \A c \in TableColumns \cap DOMAIN rec : row[c] = rec[c]

\* The table without its audit columns.
RecordView(table) ==
    { [ c \in KeyColumns \cup DataColumns |-> row[c] ] : row \in BagToSet(table) }

LastSucceeded == last.result[1] = last.result[2] /\ last.result[2] > 0

\* C1: in every reachable state the table holds at most one row for each key
\* (site_id, source, observation_time), and a successful write whose key was
\* already in the table leaves the number of rows as it was.
C1_OneRowPerKey ==
    /\ check_duplicates(store) = {}
    /\ \A i \in 1..Len(last.input) :
          CopiesOfRecordKey(store, last.input[i]) <= 1
    /\ ( /\ last.op \in UpsertOneOps
         /\ LastSucceeded
         /\ CopiesOfRecordKey(last.before, last.input[1]) > 0 )
       => RowCount(store) = RowCount(last.before)

\* C1 witness: a write that found its key in the table and succeeded.
C1_Witness ==
    /\ last.op = "save_weather_data"
    /\ ~dry_run
    /\ LastSucceeded
    /\ CopiesOfRecordKey(last.before, last.input[1]) = 1
    /\ RowCount(store) = 1

\* The call was the second successful upsertOne of the same record: the table
\* before it already held the record.
SecondCallOfSameRecord ==
    /\ last.op \in UpsertOneOps
    /\ ~dry_run
    /\ LastSucceeded
    /\ InStore(last.before, last.input[1])

\* C2 as stated: the second upsertOne(r) leaves the whole table as the first
\* call left it.
C2_SecondCallLeavesStoreUnchanged ==
    SecondCallOfSameRecord => store = last.before

\* C2 amended: the second upsertOne(r) leaves every ObservationRecord field of
\* every row and the number of rows of the key unchanged; only the audit
\* columns of the row are stamped.
C2_SecondCallLeavesRecordFieldsUnchanged ==
    SecondCallOfSameRecord =>
        /\ RecordView(store) = RecordView(last.before)
        /\ RowCount(store) = RowCount(last.before)
        /\ CopiesOfRecordKey(store, last.input[1]) = 1

\* C2 witness: a second successful call with the record already stored.
C2_Witness ==
    /\ SecondCallOfSameRecord
    /\ store # last.before

\* C3: after a successful upsert the row of its key holds, in every field
\* that is not part of the key, the value of that write, whatever the row
\* held before.
C3_LastWriterWins ==
    ( last.op \in UpsertOneOps /\ ~dry_run /\ LastSucceeded ) =>
        LET rec == last.input[1]
        IN  /\ RowsOfRecordKey(store, rec) # {}
            /\ \A row \in RowsOfRecordKey(store, rec) :
                  \A c \in DataColumns \cap DOMAIN rec : row[c] = rec[c]

\* C3 witness: the later of two successful writes of one key, with other values.
C3_Witness ==
    /\ last.op = "save_weather_data"
    /\ ~dry_run
    /\ LastSucceeded
    /\ CopiesOfRecordKey(last.before, last.input[1]) = 1
    /\ ~InStore(last.before, last.input[1])
    /\ InStore(store, last.input[1])

\* The keys of the records of a list are pairwise distinct.
DistinctKeys(records) ==
    \A i, j \in 1..Len(records) :
        i # j => \/ records[i].site_id # records[j].site_id
                 \/ records[i].observation_time # records[j].observation_time

\* The table after save_weather_record_streaming of each record of the list,
\* one at a time in the order perm, with the database available.
AfterUpsertOneEach(table, records, perm) ==
    FallbackLoop(table, 0, FALSE,
                 [ i \in 1..Len(records) |-> records[perm[i]] ],
                 [ i \in 1..Len(records) |-> "ok" ],
                 [ oks |-> <<>>, sent |-> 0, connects |-> 0,
           conn_log |-> << >> ]).table

\* C4 as stated: with the database available and pairwise distinct keys,
\* save_weather_batch_streaming returns (n, n), every record of the list is
\* stored, and the table holds what save_weather_record_streaming of each
\* record would leave, in any order.
C4_BatchEquivalence ==
    ( /\ last.op = "save_weather_batch_streaming"
      /\ ~dry_run
      /\ last.available
      /\ DistinctKeys(last.input) ) =>
        LET n == Len(last.input)
        IN  /\ last.result = << n, n >>
            /\ \A i \in 1..n : InStore(store, last.input[i])
            /\ \A perm \in Permutations(1..n) :
                  RecordView(store) =
                      RecordView(AfterUpsertOneEach(last.before, last.input, perm))

\* C5: when the batch write fails, every row the table gained belongs to a
\* record whose single write succeeded, the fallback hands every record of
\* the batch once, in order, to save_weather_record_streaming, and the
\* returned count is the number of those calls that returned True.
C5_FallbackCorrectness ==
    ( last.op = "save_weather_batch_streaming" /\ last.batch_failed ) =>
        LET n == Len(last.input)
        IN  /\ last.issued = last.input
            /\ Len(last.oks) = n
            /\ last.result[1] = Cardinality({ i \in 1..n : last.oks[i] })
            /\ last.result[2] = n
            /\ \A row \in BagToSet(store) :
                  CopiesIn(row, store) > CopiesIn(row, last.before) =>
                      \E i \in 1..n :
                          /\ last.oks[i]
                          /\ row.site_id = last.input[i].site_id
                          /\ row.observation_time = last.input[i].observation_time

\* C5 witness: a batch write that failed with the database reachable, then the
\* fallback over two records.
C5_Witness ==
    /\ last.op = "save_weather_batch_streaming"
    /\ last.batch_failed
    /\ last.available
    /\ Len(last.issued) >= 2

\* C6: on every path of save_weather_batch_streaming the result is
\* (succeeded, total) with total the length of the list and
\* 0 <= succeeded <= total, and outside dry-run succeeded is at most the
\* number of records of the list that the table holds after the call.
C6_BatchResultCounts ==
    last.op = "save_weather_batch_streaming" =>
        LET n == Len(last.input)
        IN  /\ last.result[2] = n
            /\ last.result[1] >= 0
            /\ last.result[1] <= n
            /\ ~dry_run =>
                  last.result[1] <=
                      Cardinality({ i \in 1..n : InStore(store, last.input[i]) })

\* C6 witness: a call outside dry-run that reports unsaved records.
C6_Witness ==
    /\ last.op = "save_weather_batch_streaming"
    /\ ~dry_run
    /\ Len(last.input) = MaxBatchLen
    /\ last.result[1] < last.result[2]

(***************************************************************************)
(* fetch_weather_data under @retry(stop_after_attempt(3),                  *)
(* wait_exponential(multiplier=1, min=4, max=10),                          *)
(* retry_if_exception_type(RequestException)).                             *)
(***************************************************************************)
StopAttempts == 3     \* stop_after_attempt(3)
WaitMultiplier == 1   \* wait_exponential(multiplier=1, ...)
WaitMin == 4          \* wait_exponential(..., min=4, ...)
WaitMax == 10         \* wait_exponential(..., max=10)

\* The statuses the streaming fetch names before it raises "Reintentando".
RetryableStatuses == { 429, 404, 405, 408, 409, 500, 502, 503, 504 }

\* Other statuses an endpoint can answer with (client errors that a new
\* request cannot cure).
OtherErrorStatuses == { 400, 401, 403 }

\* What requests.get can do: raise Timeout or ConnectionError, or hand back a
\* response with a status code and a JSON body.
NetworkFailure(type) ==
    [ kind |-> "failure", exc_type |-> type, status_code |-> 0, body |-> ErrorPayload ]

HttpResponse(code, body) ==
    [ kind |-> "response", exc_type |-> "none", status_code |-> code, body |-> body ]

Responses ==
    { NetworkFailure(t) : t \in { "Timeout", "ConnectionError" } }
    \cup { HttpResponse(c, ErrorPayload) : c \in RetryableStatuses \cup OtherErrorStatuses }
    \cup { HttpResponse(200, b) : b \in { ArchivePayload(r) : r \in RunIds } \cup { ErrorPayload } }

\* The classes of requests.exceptions that are RequestException.
RequestExceptionTypes == { "RequestException", "HTTPError", "Timeout", "ConnectionError" }

Returned(value) == [ kind |-> "return", value |-> value ]
Raised(type, message) == [ kind |-> "raise", exc |-> [ type |-> type, message |-> message ] ]

\* etl_weather_streaming.py: the body of fetch_weather_data for one request.
fetch_weather_data_streaming(resp) ==
    IF resp.kind = "failure"
    THEN Raised(resp.exc_type, << "requests.get" >>)
    ELSE IF resp.status_code \in RetryableStatuses
    THEN Raised("RequestException", << "Respuesta", resp.status_code >>)
    ELSE IF resp.status_code = 200
    THEN Returned(resp.body)
    ELSE Raised("RequestException", << "Respuesta", resp.status_code >>)

\* response.raise_for_status(): HTTPError for a 4xx or 5xx status.
raise_for_status(resp) == resp.status_code >= 400 /\ resp.status_code < 600

\* etl_weather.py: the body of fetch_weather_data for one request: the
\* normalized list, None when normalization raises, RequestException re-raised.
fetch_weather_data_archive(resp, site_id, run_id) ==
    IF resp.kind = "failure"
    THEN Raised(resp.exc_type, << "requests.get" >>)
    ELSE IF raise_for_status(resp)
    THEN Raised("HTTPError", << "raise_for_status", resp.status_code >>)
    ELSE LET n == normalize_weather_data(resp.body, site_id, run_id, run_id)
         IN  IF n.ok THEN Returned(Some(n.records)) ELSE Returned(None)

\* Mutant: stop_after_attempt compares with > instead of >=.
stop_after_attempt_late(attempt_number) == attempt_number > StopAttempts

\* tenacity stop_after_attempt(3): stop once attempt_number >= 3.
stop_after_attempt(attempt_number) == attempt_number >= StopAttempts

RECURSIVE Pow2(_)
Pow2(n) == IF n <= 0 THEN 1 ELSE 2 * Pow2(n - 1)

Max(a, b) == IF a >= b THEN a ELSE b
Min(a, b) == IF a <= b THEN a ELSE b

\* Mutant: the wait starts at min and doubles.
wait_exponential_from_min(attempt_number) ==
    Min(WaitMin * Pow2(attempt_number - 1), WaitMax)

\* tenacity wait_exponential(multiplier=1, min=4, max=10) after the failed
\* attempt attempt_number: max(max(0, min), min(multiplier * 2^(n-1), max)).
wait_exponential(attempt_number) ==
    Max(Max(0, WaitMin), Min(WaitMultiplier * Pow2(attempt_number - 1), WaitMax))

\* retry_if_exception_type((requests.exceptions.RequestException,))
retry_if_exception_type(exc) == exc.type \in RequestExceptionTypes

\* One pass of tenacity's loop for the call state f and the answer resp: call
\* the function; a return value ends the call; an exception that is not
\* retried is re-raised; at the stop condition RetryError(last_attempt) is
\* raised; otherwise sleep and count the next attempt.
RetryIteration(f, resp) ==
    LET out == IF f.variant = "streaming"
               THEN fetch_weather_data_streaming(resp)
               ELSE fetch_weather_data_archive(resp, f.site_id, f.run_id)
        g == [ f EXCEPT !.requests = @ + 1, !.responses = Append(@, resp) ]
    IN  IF out.kind = "return"
        THEN [ g EXCEPT !.pc = "done", !.outcome = out ]
        ELSE IF ~retry_if_exception_type(out.exc)
        THEN [ g EXCEPT !.pc = "done", !.outcome = out ]
        ELSE IF stop_after_attempt(f.attempt_number)
        THEN [ g EXCEPT !.pc = "done",
                        !.outcome = [ kind |-> "raise",
                                      exc  |-> [ type |-> "RetryError",
                                                 message |-> << >>,
                                                 last_attempt |-> out.exc ] ] ]
        ELSE [ g EXCEPT !.waits = Append(@, wait_exponential(f.attempt_number)),
                        !.attempt_number = @ + 1 ]

\* The decorated function is entered: attempt 1 has not been made yet.
FetchStarted(variant, site_id, run_id) ==
    [ pc |-> "calling", variant |-> variant, site_id |-> site_id, run_id |-> run_id,
      attempt_number |-> 1, requests |-> 0, responses |-> <<>>, waits |-> <<>>,
      outcome |-> [ kind |-> "none" ] ]

(***************************************************************************)
(* SpecFetch: one call of fetch_weather_data against any endpoint.         *)
(***************************************************************************)
InitFetch ==
    /\ program \in { "etl_weather", "etl_weather_streaming" }
    /\ dry_run = FALSE
    /\ store = EmptyBag
    /\ db_now = 0
    /\ last = NoCall
    /\ fetch = FetchIdle
    /\ NoRun

\* fetch_weather_data(site) is called.
FetchCall(site_id) ==
    /\ fetch.pc = "idle"
    /\ fetch' = FetchStarted(IF program = "etl_weather" THEN "archive" ELSE "streaming",
                             site_id, 1)
    /\ UNCHANGED << storeVars, runVars, normVars >>

\* One attempt: one HTTP request and what tenacity does with its outcome.
FetchAttempt(resp) ==
    /\ fetch.pc = "calling"
    /\ fetch' = RetryIteration(fetch, resp)
    /\ UNCHANGED << storeVars, runVars, normVars >>

NextFetch ==
    \/ \E site_id \in SiteIds : FetchCall(site_id)
    \/ \E resp \in Responses : FetchAttempt(resp)

SpecFetch == InitFetch /\ [][NextFetch]_vars

(***************************************************************************)
(* Properties of one fetch call.                                           *)
(***************************************************************************)
\* A timeout, a connection failure, or a status the fetch names as retryable.
RetryableFailure(resp) ==
    \/ resp.kind = "failure"
    \/ resp.kind = "response" /\ resp.status_code \in RetryableStatuses

\* A response with a non-2xx status outside the retryable list.
OtherNon2xx(resp) ==
    /\ resp.kind = "response"
    /\ resp.status_code \notin 200..299
    /\ resp.status_code \notin RetryableStatuses

\* A 200 response whose body is a weather payload.
Succeeds(resp) ==
    resp.kind = "response" /\ resp.status_code = 200 /\ resp.body # ErrorPayload

\* What the call hands back for a successful response: the JSON body in
\* streaming, the normalized list in the batch script.
PayloadOf(f, resp) ==
    IF f.variant = "streaming"
    THEN resp.body
    ELSE Some(normalize_weather_data(resp.body, f.site_id, f.run_id, f.run_id).records)

AllRetryableBefore(k) ==
    \A i \in 1..(k - 1) : RetryableFailure(fetch.responses[i])

\* C7: an endpoint that answers every request with a retryable failure gets
\* exactly 3 requests and then the call fails; an endpoint that succeeds on
\* attempt k <= 3 gets exactly k requests and the call returns that payload;
\* no call issues more than 3 requests.
C7_RetryBound ==
    /\ fetch.requests = Len(fetch.responses)
    /\ fetch.requests <= 3
    /\ ( fetch.pc = "done" /\ AllRetryableBefore(fetch.requests + 1) )
         => ( fetch.requests = 3 /\ fetch.outcome.kind = "raise" )
    /\ \A k \in 1..Len(fetch.responses) :
         ( AllRetryableBefore(k) /\ Succeeds(fetch.responses[k]) )
           => /\ fetch.pc = "done"
              /\ fetch.requests = k
              /\ fetch.outcome.kind = "return"
              /\ fetch.outcome.value = PayloadOf(fetch, fetch.responses[k])

\* Three retryable failures in a row have been answered and the call failed.
C7_Witness ==
    /\ fetch.pc = "done"
    /\ fetch.requests = 3
    /\ AllRetryableBefore(4)
    /\ fetch.responses[1].kind = "response"
    /\ fetch.outcome.kind = "raise"

\* C8: a response with a non-2xx status outside the retryable list ends the
\* call in failure after that request: no request follows it.
C8_OnlyTransientFailuresRetried ==
    \A i \in 1..Len(fetch.responses) :
        OtherNon2xx(fetch.responses[i])
          => /\ fetch.pc = "done"
             /\ fetch.outcome.kind = "raise"
             /\ i = Len(fetch.responses)

\* C10 as stated: the first wait is the minimum 4, each following wait is
\* double the previous one capped at 10, so a call of 3 attempts waits 4
\* then 8.
C10_WaitsDouble ==
    /\ Len(fetch.waits) >= 1 => fetch.waits[1] = 4
    /\ \A i \in 1..(Len(fetch.waits) - 1) :
         fetch.waits[i + 1] = Min(2 * fetch.waits[i], 10)

\* C10 as the code behaves: the wait after failed attempt n is 2^(n-1)
\* clamped into [4, 10], so a call of 3 attempts waits 4 then 4; the waits
\* never decrease and there is one wait between two consecutive attempts.
C10_BackoffSchedule ==
    /\ Len(fetch.waits) = IF fetch.pc = "idle" THEN 0 ELSE fetch.attempt_number - 1
    /\ Len(fetch.waits) <= 2
    /\ \A i \in 1..Len(fetch.waits) :
         /\ fetch.waits[i] >= 4 /\ fetch.waits[i] <= 10
         /\ fetch.waits[i] = 4
         /\ i > 1 => fetch.waits[i] >= fetch.waits[i - 1]

\* A call went through its 3 attempts and slept twice.
C10_Witness ==
    /\ fetch.pc = "done"
    /\ fetch.requests = 3
    /\ Len(fetch.waits) = 2

(***************************************************************************)
(* Spec: one run of run_etl_streaming.  The main thread submits one task   *)
(* per site to a pool of max_workers threads and collects the results as   *)
(* they complete; each task is process_site_streaming.                     *)
(***************************************************************************)
streaming_batch_size == MaxBatchLen   \* STREAMING_BATCH_SIZE of the runs of Spec

\* The values of MAX_WORKERS that are tried.
WorkerCounts == { 1, 2 }

\* The catalogs load_sites can return.
Catalogs == { << >>, << 1 >>, << 1, 2 >> }

\* What the forecast endpoint answers in a run: an overloaded server, a
\* rejected request, a good payload, a payload whose last timestamp cannot
\* be parsed, and JSON without weather blocks.
RunResponses ==
    { HttpResponse(503, ErrorPayload), HttpResponse(400, ErrorPayload),
      HttpResponse(200, ForecastPayload(1, 0)),
      HttpResponse(200, ForecastPayload(1, NumTimes)),
      HttpResponse(200, ErrorPayload) }

\* str(e): the message of an exception; RetryError prints the Future of its
\* last attempt, which shows the class of the exception it holds and not
\* its message.
Str(exc) ==
    IF exc.type = "RetryError"
    THEN << "RetryError[<Future state=finished raised", exc.last_attempt.type, ">]" >>
    ELSE exc.message

\* process_site_streaming: the tuple returned by the except branch.
ErrorResult(site_id, exc) ==
    [ success |-> FALSE, message |-> << "Error procesando", site_id, Str(exc) >>,
      records |-> 0 ]

\* process_site_streaming: the tuple returned after the generator ended.
FinalResult(site_id, records_processed) ==
    IF records_processed > 0
    THEN [ success |-> TRUE,
           message |-> << "Datos procesados exitosamente para", site_id, records_processed >>,
           records |-> records_processed ]
    ELSE [ success |-> FALSE,
           message |-> << "No se procesaron registros para", site_id >>,
           records |-> 0 ]

SitesOf(sites) == { sites[i] : i \in 1..Len(sites) }

\* Mutant: a task keeps its worker thread after it has returned.
RunningNeverFreed ==
    { s \in SiteIds : tasks[s].pc \in { "fetching", "streaming", "done", "collected" } }

\* Mutant: a task gives its worker thread back when its fetch is over.
RunningOnlyFetching == { s \in SiteIds : tasks[s].pc = "fetching" }

\* The tasks that hold a worker thread of the pool.
Running == { s \in SiteIds : tasks[s].pc \in { "fetching", "streaming" } }

Init ==
    /\ program = "etl_weather_streaming"
    /\ dry_run \in BOOLEAN
    /\ store = EmptyBag
    /\ db_now = 0
    /\ last = NoCall
    /\ fetch = FetchIdle
    /\ main \in { [ RunIdle EXCEPT !.max_workers = w,
                                 !.streaming_batch_size = streaming_batch_size ] :
                     w \in WorkerCounts }
    /\ tasks = [ s \in SiteIds |-> TaskAbsent ]
    /\ stats = InitialStats
    /\ norm = NormIdle

\* run_etl_streaming up to the submission of the tasks; with an empty
\* catalog it returns at once.
RunStart(sites) ==
    /\ main.pc = "idle"
    /\ stats' = [ stats EXCEPT !.total_sites = Len(sites) ]
    /\ IF sites = << >>
       THEN /\ main' = [ main EXCEPT !.pc = "returned" ]
            /\ UNCHANGED tasks
       ELSE /\ main' = [ main EXCEPT !.pc = "collecting", !.sites = sites ]
            /\ tasks' = [ s \in SiteIds |->
                            IF s \in SitesOf(sites)
                            THEN [ TaskAbsent EXCEPT !.pc = "pending" ]
                            ELSE tasks[s] ]
    /\ UNCHANGED << storeVars, fetchVars, normVars >>

\* A free worker thread takes the oldest submitted task and enters
\* process_site_streaming.
TaskStart(s) ==
    /\ tasks[s].pc = "pending"
    /\ Cardinality(Running) < main.max_workers
    /\ \A i \in 1..Len(main.sites) :
         main.sites[i] = s => \A j \in 1..(i - 1) : tasks[main.sites[j]].pc # "pending"
    /\ tasks' = [ tasks EXCEPT ![s].pc = "fetching",
                               ![s].fetch = FetchStarted("streaming", s, 1) ]
    /\ UNCHANGED << storeVars, fetchVars, main, stats, normVars >>

\* One attempt of self.fetch_weather_data(site) inside the task: the call
\* goes on, or returns the payload to the streaming loop, or raises into
\* the except branch.
TaskFetchAttempt(s, resp) ==
    /\ tasks[s].pc = "fetching"
    /\ LET f == RetryIteration(tasks[s].fetch, resp)
       IN  tasks' =
             IF f.pc = "calling"
             THEN [ tasks EXCEPT ![s].fetch = f ]
             ELSE IF f.outcome.kind = "return"
             THEN LET g == normalize_weather_data_streaming(f.outcome.value, s, 1, 1)
                  IN  [ tasks EXCEPT ![s].fetch = f, ![s].pc = "streaming",
                                     ![s].gen = g.records, ![s].gen_exc = g.exc ]
             ELSE [ tasks EXCEPT ![s].fetch = f, ![s].pc = "done",
                                 ![s].result = ErrorResult(s, f.outcome.exc) ]
    /\ UNCHANGED << storeVars, fetchVars, main, stats, normVars >>

\* Mutant: the new record is put at the front of the batch.
batch_prepend(batch, normalized_record) == << normalized_record >> \o batch

\* batch.append(normalized_record)
batch_append(batch, normalized_record) == Append(batch, normalized_record)

\* Mutant: the batch is saved when it has grown past the batch size.
BatchFullLate(batch, size) == Len(batch) > size

\* if len(batch) >= self.streaming_batch_size
BatchFull(batch, size) == Len(batch) >= size

\* One pass of the for loop: the generator yields a record, the record joins
\* the batch, and a full batch is saved and cleared.
TaskYield(s, dbs) ==
    /\ tasks[s].pc = "streaming"
    /\ tasks[s].gen # << >>
    /\ LET batch == batch_append(tasks[s].batch, Head(tasks[s].gen))
           t == [ tasks[s] EXCEPT !.gen = Tail(@), !.records_processed = @ + 1 ]
       IN  IF BatchFull(batch, main.streaming_batch_size)
           THEN \E r \in { save_weather_batch_streaming(store, db_now, dry_run, batch, dbs) } :
                    /\ r.now <= MaxClock
                    /\ store' = r.table
                    /\ db_now' = r.now
                    /\ tasks' = [ tasks EXCEPT ![s] =
                                    [ t EXCEPT !.batch = << >>,
                                               !.handed = Append(@, batch),
                                               !.flushed = Append(@, r.result) ] ]
           ELSE /\ tasks' = [ tasks EXCEPT ![s] = [ t EXCEPT !.batch = batch ] ]
                /\ UNCHANGED << store, db_now >>
    /\ UNCHANGED << dry_run, program, last, fetchVars, main, stats, normVars >>

\* Mutant: the task returns without saving the rest of the batch.
TaskGeneratorReturnsDropsRest(s, dbs) ==
    /\ tasks[s].pc = "streaming"
    /\ tasks[s].gen = << >>
    /\ tasks[s].gen_exc = NoException
    /\ tasks' = [ tasks EXCEPT ![s].pc = "done",
                               ![s].result = FinalResult(s, tasks[s].records_processed) ]
    /\ UNCHANGED << storeVars, fetchVars, main, stats, normVars >>

\* The generator is exhausted: the rest of the batch is saved and the task
\* returns its tuple.
TaskGeneratorReturns(s, dbs) ==
    /\ tasks[s].pc = "streaming"
    /\ tasks[s].gen = << >>
    /\ tasks[s].gen_exc = NoException
    /\ LET t == [ tasks[s] EXCEPT !.pc = "done",
                                  !.result = FinalResult(s, tasks[s].records_processed) ]
       IN  IF tasks[s].batch # << >>
           THEN \E r \in { save_weather_batch_streaming(store, db_now, dry_run,
                                                       tasks[s].batch, dbs) } :
                    /\ r.now <= MaxClock
                    /\ store' = r.table
                    /\ db_now' = r.now
                    /\ tasks' = [ tasks EXCEPT ![s] =
                                    [ t EXCEPT !.handed = Append(@, tasks[s].batch),
                                               !.flushed = Append(@, r.result) ] ]
           ELSE /\ tasks' = [ tasks EXCEPT ![s] = t ]
                /\ UNCHANGED << store, db_now >>
    /\ UNCHANGED << dry_run, program, last, fetchVars, main, stats, normVars >>

\* Mutant: after an exception of the generator the task fetches again.
TaskGeneratorRaisesRefetches(s) ==
    /\ tasks[s].pc = "streaming"
    /\ tasks[s].gen = << >>
    /\ tasks[s].gen_exc # NoException
    /\ tasks' = [ tasks EXCEPT ![s].pc = "fetching",
                               ![s].fetch = FetchStarted("streaming", s, 1) ]
    /\ UNCHANGED << storeVars, fetchVars, main, stats, normVars >>

\* Mutant: the exception of the generator is swallowed and the task returns
\* as if the generator had ended.
TaskGeneratorRaisesSwallowed(s) ==
    /\ tasks[s].pc = "streaming"
    /\ tasks[s].gen = << >>
    /\ tasks[s].gen_exc # NoException
    /\ tasks' = [ tasks EXCEPT ![s].pc = "done",
                               ![s].result = FinalResult(s, tasks[s].records_processed) ]
    /\ UNCHANGED << storeVars, fetchVars, main, stats, normVars >>

\* The generator raises: the except branch returns the failure tuple; the
\* records waiting in the batch are not saved.
TaskGeneratorRaises(s) ==
    /\ tasks[s].pc = "streaming"
    /\ tasks[s].gen = << >>
    /\ tasks[s].gen_exc # NoException
    /\ tasks' = [ tasks EXCEPT ![s].pc = "done",
                               ![s].result = ErrorResult(s, tasks[s].gen_exc) ]
    /\ UNCHANGED << storeVars, fetchVars, main, stats, normVars >>

\* Mutant: the records of the task are not added to the total.
BookResultSkipsRecords(st, res) ==
    IF res.success
    THEN [ st EXCEPT !.successful = @ + 1 ]
    ELSE [ st EXCEPT !.failed = @ + 1,
                     !.errors = Append(@, res.message) ]

\* Mutant: a failed task is counted as failed and as successful.
BookResultCountsFailureTwice(st, res) ==
    IF res.success
    THEN [ st EXCEPT !.records_processed = @ + res.records,
                     !.successful = @ + 1 ]
    ELSE [ st EXCEPT !.records_processed = @ + res.records,
                     !.successful = @ + 1,
                     !.failed = @ + 1,
                     !.errors = Append(@, res.message) ]

\* The body of the as_completed loop: self.stats after the tuple res that
\* future.result() returned has been booked.  (process_site_streaming
\* catches every Exception, so future.result() does not raise one.)
BookResult(st, res) ==
    IF res.success
    THEN [ st EXCEPT !.records_processed = @ + res.records,
                     !.successful = @ + 1 ]
    ELSE [ st EXCEPT !.records_processed = @ + res.records,
                     !.failed = @ + 1,
                     !.errors = Append(@, res.message) ]

\* The main thread takes a completed future from as_completed and books
\* its result in self.stats.
CollectResult(s) ==
    /\ main.pc = "collecting"
    /\ tasks[s].pc = "done"
    /\ stats' = BookResult(stats, tasks[s].result)
    /\ tasks' = [ tasks EXCEPT ![s].pc = "collected" ]
    /\ UNCHANGED << storeVars, fetchVars, main, normVars >>

\* Mutant: the summary does not wait for the futures.
PrintSummaryEarly ==
    /\ main.pc = "collecting"
    /\ main' = [ main EXCEPT !.pc = "summary" ]
    /\ UNCHANGED << storeVars, fetchVars, tasks, stats, normVars >>

\* _print_summary lists the first ErrorsShown messages of self.stats['errors'].
ErrorsShown == 5

\* Mutant: _print_summary lists every message.
print_summary_lists_all(st) == [ errors |-> st.errors, more |-> 0 ]

\* _print_summary: the error lines of the summary, i.e. the messages that
\* are listed and the number announced by "... y N errores mas".
print_summary(st) ==
    [ errors |-> SubSeq(st.errors, 1, Min(Len(st.errors), ErrorsShown)),
      more   |-> IF Len(st.errors) > ErrorsShown THEN Len(st.errors) - ErrorsShown ELSE 0 ]

\* Every future has been collected: _print_summary.
PrintSummary ==
    /\ main.pc = "collecting"
    /\ \A s \in SitesOf(main.sites) : tasks[s].pc = "collected"
    /\ main' = [ main EXCEPT !.pc = "summary", !.summary = print_summary(stats) ]
    /\ UNCHANGED << storeVars, fetchVars, tasks, stats, normVars >>

Next ==
    \/ \E sites \in Catalogs : RunStart(sites)
    \/ \E s \in SiteIds : TaskStart(s)
    \/ \E s \in SiteIds, resp \in RunResponses : TaskFetchAttempt(s, resp)
    \/ \E s \in SiteIds :
          \E dbs \in [ 1..(Len(tasks[s].batch) + 2) -> { "ok", "connect_error" } ] :
             TaskYield(s, dbs)
    \/ \E s \in SiteIds :
          \E dbs \in [ 1..(Len(tasks[s].batch) + 1) -> { "ok", "connect_error" } ] :
             TaskGeneratorReturns(s, dbs)
    \/ \E s \in SiteIds : TaskGeneratorRaises(s)
    \/ \E s \in SiteIds : CollectResult(s)
    \/ PrintSummary

Spec == Init /\ [][Next]_vars

\* The run with its threads scheduled: the main thread and every worker
\* thread that can take a step eventually takes one.
LiveSpec == Init /\ [][Next]_vars /\ WF_vars(Next)

(***************************************************************************)
(* Properties of a run (Spec).                                             *)
(***************************************************************************)
\* The call of fetch_weather_data of the task of site s has raised.
FetchFailed(s) ==
    /\ tasks[s].fetch.pc = "done"
    /\ tasks[s].fetch.outcome.kind = "raise"

\* The exception of the attempt that ended the call.
UnderlyingError(exc) ==
    IF exc.type = "RetryError" THEN exc.last_attempt ELSE exc

\* The task of site s ended with success = FALSE and handed nothing to the
\* store.
TaskFailedWithoutWrite(s) ==
    /\ tasks[s].pc \in { "done", "collected" }
    /\ ~tasks[s].result.success
    /\ tasks[s].records_processed = 0
    /\ tasks[s].flushed = << >>

\* The message of the task of site s reports the exception of the last
\* attempt, and once the result is collected it is in the report's errors.
RecordsUnderlyingError(s) ==
    LET cause == UnderlyingError(tasks[s].fetch.outcome.exc)
        message == << "Error procesando", s, cause.message >>
    IN  /\ tasks[s].result.message = message
        /\ tasks[s].pc = "collected"
             => \E i \in 1..Len(stats.errors) : stats.errors[i] = message

\* C9: when the fetch of a site fails, the task of the site ends failed, the
\* error recorded for the site is the error of the last attempt, and no
\* write to the store is issued for the site.
C9_FetchFailureFailsTask ==
    \A s \in SiteIds :
        FetchFailed(s) => TaskFailedWithoutWrite(s) /\ RecordsUnderlyingError(s)

\* The part of the behaviour after a failed fetch that the code keeps.
FetchFailureEndsTaskWithoutWrite ==
    \A s \in SiteIds : FetchFailed(s) => TaskFailedWithoutWrite(s)

\* A task whose fetch used up its 3 attempts has been collected.
FetchFailureCollected ==
    \E s \in SiteIds :
        /\ FetchFailed(s)
        /\ tasks[s].fetch.requests = 3
        /\ tasks[s].pc = "collected"
        /\ stats.failed >= 1

(***************************************************************************)
(* SpecNormalize: one call of a normalizer on any payload of a bounded     *)
(* family: _normalize_weather_data of etl_weather.py on archive payloads,  *)
(* normalize_weather_data_streaming on forecast payloads.                  *)
(***************************************************************************)
\* An array of the API of the given length; the value at position i is
\* base + i, so that positions can be told apart.
ArrayOf(base, len) == [ i \in 1..len |-> Some(base + i) ]

\* hourly.time of length n; bad_at > 0 garbles the timestamp at that position.
Timestamps(n, bad_at) ==
    [ i \in 1..n |-> IF i = bad_at THEN << "garbled", i >> ELSE IsoString(i) ]

\* The hourly blocks of the archive API: n timestamps and three arrays of
\* any length up to NumTimes.
ArchiveHourlyBlocks ==
    { [ time                 |-> Timestamps(q[1], q[2]),
        temperature_2m       |-> ArrayOf(10, l[1]),
        relative_humidity_2m |-> ArrayOf(80, l[2]),
        precipitation        |-> ArrayOf(0, l[3]) ] :
        q \in { x \in (0..NumTimes) \X (0..NumTimes) : x[2] <= x[1] },
        l \in (0..NumTimes) \X (0..NumTimes) \X (0..NumTimes) }

ArchiveInputs == { [ hourly |-> h ] : h \in ArchiveHourlyBlocks } \cup { ErrorPayload }

\* The current blocks of the forecast API: with a timestamp, without one,
\* and with one that cannot be parsed.
CurrentBlocks ==
    { [ time                 |-> tm,
        temperature_2m       |-> Some(11),
        relative_humidity_2m |-> Some(81),
        wind_speed_10m       |-> Some(1) ] :
        tm \in { Some(IsoString(0)), None, Some(<< "garbled", 0 >>) } }

\* The hourly blocks of the forecast API: n timestamps and four arrays of
\* one common length up to NumTimes.
ForecastHourlyBlocks ==
    { [ time                 |-> Timestamps(q[1], q[2]),
        temperature_2m       |-> ArrayOf(10, l),
        relative_humidity_2m |-> ArrayOf(80, l),
        precipitation        |-> ArrayOf(0, l),
        wind_speed_10m       |-> ArrayOf(0, l) ] :
        q \in { x \in (0..NumTimes) \X (0..NumTimes) : x[2] <= x[1] },
        l \in 0..NumTimes }

ForecastInputs ==
    { [ current |-> c, hourly |-> h ] : c \in CurrentBlocks, h \in ForecastHourlyBlocks }
    \cup { [ current |-> c ] : c \in CurrentBlocks }
    \cup { [ hourly |-> h ] : h \in ForecastHourlyBlocks }
    \cup { ErrorPayload }

InitNormalize ==
    /\ program \in { "etl_weather", "etl_weather_streaming" }
    /\ dry_run = FALSE
    /\ store = EmptyBag
    /\ db_now = 0
    /\ last = NoCall
    /\ fetch = FetchIdle
    /\ main = RunIdle
    /\ tasks = [ s \in SiteIds |-> TaskAbsent ]
    /\ stats = InitialStats
    /\ norm \in IF program = "etl_weather"
                THEN { [ NormIdle EXCEPT !.pc = "input", !.shape = "archive",
                                         !.raw_data = p ] : p \in ArchiveInputs }
                ELSE { [ NormIdle EXCEPT !.pc = "input", !.shape = "forecast",
                                         !.raw_data = p ] : p \in ForecastInputs }

\* self._normalize_weather_data(data, site) of site 1 in run 1.
NormalizeArchive ==
    /\ norm.pc = "input"
    /\ norm.shape = "archive"
    /\ LET r == normalize_weather_data(norm.raw_data, 1, 1, 1)
       IN  norm' = [ norm EXCEPT !.pc = "done", !.ok = r.ok, !.records = r.records ]
    /\ UNCHANGED << storeVars, fetchVars, runVars >>

\* The generator self.normalize_weather_data_streaming(raw_data, site) of
\* site 1 in run 1, consumed until it returns or raises.
NormalizeForecast ==
    /\ norm.pc = "input"
    /\ norm.shape = "forecast"
    /\ LET r == normalize_weather_data_streaming(norm.raw_data, 1, 1, 1)
       IN  norm' = [ norm EXCEPT !.pc = "done", !.ok = (r.exc = NoException),
                                 !.records = r.records, !.exc = r.exc ]
    /\ UNCHANGED << storeVars, fetchVars, runVars >>

NextNormalize ==
    \/ NormalizeArchive
    \/ NormalizeForecast

SpecNormalize == InitNormalize /\ [][NextNormalize]_vars

(***************************************************************************)
(* Properties of the normalizers (SpecNormalize).                          *)
(***************************************************************************)
\* The archive normalizer has returned or raised on a payload with an hourly
\* block whose timestamps all parse.
ArchiveCallOnParsableHourly ==
    /\ norm.pc = "done"
    /\ norm.shape = "archive"
    /\ "hourly" \in DOMAIN norm.raw_data
    /\ \A i \in 1..Len(norm.raw_data.hourly.time) :
         fromisoformat(norm.raw_data.hourly.time[i]).ok

\* Record i of the archive normalizer carries hour i and the value at
\* position i of each array that is long enough, null otherwise.
ArchiveRecordsFollowArrays ==
    LET hourly == norm.raw_data.hourly
    IN  /\ norm.ok
        /\ Len(norm.records) = Len(hourly.time)
        /\ \A i \in 1..Len(norm.records) :
             /\ norm.records[i].observation_time = i
             /\ norm.records[i].temp_c =
                  IF i <= Len(hourly.temperature_2m) THEN Some(10 + i) ELSE None
             /\ norm.records[i].humidity_pct =
                  IF i <= Len(hourly.relative_humidity_2m) THEN Some(80 + i) ELSE None
             /\ norm.records[i].weather_description =
                  << "precipitation=",
                     IF i <= Len(hourly.precipitation) THEN Some(i) ELSE None, "mm" >>

\* C11 as stated: for every N >= 0 timestamps the archive normalizer yields
\* exactly N records in array order, short arrays giving null, and raises
\* no error.
C11_ArchiveYieldsNRecords ==
    ArchiveCallOnParsableHourly => ArchiveRecordsFollowArrays

\* C11 as the code behaves: the same for every N >= 1; with no timestamp at
\* all (N = 0) the normalizer raises instead of returning an empty list.
C11_ArchiveYieldsNRecordsForNonEmpty ==
    ArchiveCallOnParsableHourly =>
        IF Len(norm.raw_data.hourly.time) >= 1
        THEN ArchiveRecordsFollowArrays
        ELSE ~norm.ok /\ norm.records = << >>

\* Two timestamps with a humidity array of one value have been normalized.
C11_Witness ==
    /\ ArchiveCallOnParsableHourly
    /\ Len(norm.raw_data.hourly.time) = 2
    /\ Len(norm.raw_data.hourly.relative_humidity_2m) = 1
    /\ Len(norm.records) = 2
    /\ norm.records[2].humidity_pct = None

\* Every timestamp of the payload (current.time when present, hourly.time)
\* is one that fromisoformat accepts.
AllTimestampsParse(raw_data) ==
    /\ "current" \in DOMAIN raw_data
         => \A t \in raw_data.current.time : fromisoformat(t).ok
    /\ "hourly" \in DOMAIN raw_data
         => \A i \in 1..Len(raw_data.hourly.time) :
              fromisoformat(raw_data.hourly.time[i]).ok

\* The streaming normalizer has run on a payload with a current and an
\* hourly block whose timestamps all parse.
ForecastCallOnBothBlocks ==
    /\ norm.pc = "done"
    /\ norm.shape = "forecast"
    /\ "current" \in DOMAIN norm.raw_data
    /\ "hourly" \in DOMAIN norm.raw_data
    /\ AllTimestampsParse(norm.raw_data)

\* The records from position first on are the hourly records in array order.
HourlyRecordsFrom(first) ==
    /\ Len(norm.records) = first - 1 + Len(norm.raw_data.hourly.time)
    /\ \A i \in 1..Len(norm.raw_data.hourly.time) :
         /\ norm.records[first - 1 + i].data_type = "hourly"
         /\ norm.records[first - 1 + i].observation_time = i

\* One record tagged current, then the hourly records.
CurrentThenHourly ==
    /\ norm.ok
    /\ Len(norm.records) >= 1
    /\ norm.records[1].data_type = "current"
    /\ HourlyRecordsFrom(2)

\* C12 as stated: a payload with a current and an hourly block yields
\* 1 + len(hourly.time) records, the single current record first; a current
\* block that is present always contributes exactly one record.
C12_ForecastYieldsCurrentThenHourly ==
    ForecastCallOnBothBlocks => CurrentThenHourly

\* C12 as the code behaves: a current block contributes its record only when
\* it carries a time; without one the records are the hourly records alone.
C12_ForecastYieldsCurrentWithTimeThenHourly ==
    ForecastCallOnBothBlocks =>
        IF norm.raw_data.current.time # None
        THEN CurrentThenHourly
        ELSE norm.ok /\ HourlyRecordsFrom(1)

\* A current block with a time and two hours have been normalized.
C12_Witness ==
    /\ ForecastCallOnBothBlocks
    /\ norm.raw_data.current.time # None
    /\ Len(norm.raw_data.hourly.time) = 2
    /\ Len(norm.records) = 3

\* The payload has neither block, or one of its timestamps cannot be parsed.
MustFailNormalization(raw_data) ==
    \/ "current" \notin DOMAIN raw_data /\ "hourly" \notin DOMAIN raw_data
    \/ ~AllTimestampsParse(raw_data)

\* C13: both normalizers fail with an error, and do not come back with an
\* empty sequence, on a payload with neither block and on a payload with a
\* timestamp that cannot be parsed.
C13_NormalizeFailsOnBadPayload ==
    ( norm.pc = "done" /\ MustFailNormalization(norm.raw_data) ) => ~norm.ok

\* The part of C13 the code keeps: the archive normalizer always fails on
\* such payloads, the streaming one on unparsable timestamps.
NormalizeFailsExceptForecastWithoutBlocks ==
    ( /\ norm.pc = "done"
      /\ MustFailNormalization(norm.raw_data)
      /\ ( norm.shape = "archive" \/ ~AllTimestampsParse(norm.raw_data) ) )
    => ~norm.ok

(***************************************************************************)
(* Dry-run (SpecStore).                                                    *)
(***************************************************************************)
\* The last persistence call reported every record of its input as saved
\* without calling get_db_connection or sending a statement.
LastCallWasNoOp ==
    /\ last.result = << Len(last.input), Len(last.input) >>
    /\ last.connects = 0
    /\ last.sent = 0
    /\ store = last.before

\* C14: with dry-run enabled every upsertOne returns success and every
\* upsertBatch returns (n, n), no connection is opened, and no step of
\* the run changes the store.
C14_DryRunTouchesNothing ==
    /\ []( ( dry_run /\ last.op # "none" ) => LastCallWasNoOp )
    /\ [][ dry_run => store' = store ]_vars

\* A dry-run batch call of two records over a table that holds a row.
C14_Witness ==
    /\ dry_run
    /\ last.op = "save_weather_batch_streaming"
    /\ Len(last.input) = 2
    /\ last.result = << 2, 2 >>
    /\ store # EmptyBag

(***************************************************************************)
(* Outcome of the site tasks and the report (Spec).                        *)
(***************************************************************************)
RECURSIVE SumSaved(_)
\* The records the store calls of a task reported as saved.
SumSaved(flushed) ==
    IF flushed = << >> THEN 0 ELSE Head(flushed)[1] + SumSaved(Tail(flushed))

\* The result of the task of site s has been booked in the report.
Collected(s) == tasks[s].pc = "collected"

\* C15: a task is reported as succeeded only when every record it produced
\* was persisted, and a task that produced or persisted no record is
\* reported as failed.
C15_SucceededOnlyWhenAllPersisted ==
    \A s \in SiteIds :
        Collected(s) =>
            /\ tasks[s].result.success
                 => /\ tasks[s].records_processed > 0
                    /\ SumSaved(tasks[s].flushed) = tasks[s].records_processed
            /\ ( tasks[s].records_processed = 0 \/ SumSaved(tasks[s].flushed) = 0 )
                 => ~tasks[s].result.success

\* What the streaming task does: it succeeds exactly when it produced a
\* record, whatever the store calls returned.
SucceededIffProducedRecords ==
    \A s \in SiteIds :
        Collected(s) =>
            ( tasks[s].result.success <=>
                ( tasks[s].gen_exc = NoException /\ tasks[s].records_processed > 0 ) )

\* C16 as stated: once the catalog is loaded, empty or not, the run reaches
\* its summary.
C16_RunReachesSummary ==
    ( main.pc # "idle" ) ~> ( main.pc = "summary" )

\* C16 as the code behaves: with a catalog that is not empty, whatever
\* fails in the tasks, every site is processed and collected and the
\* summary is printed; with an empty catalog the run returns without one.
C16_NonEmptyRunReachesSummary ==
    /\ ( main.pc = "collecting" )
         ~> ( main.pc = "summary" /\ \A s \in SitesOf(main.sites) : Collected(s) )
    /\ []( main.pc = "returned" => main.sites = << >> )

\* The summary is printed after one task failed and another succeeded.
C16_Witness ==
    /\ main.pc = "summary"
    /\ \E s1, s2 \in SitesOf(main.sites) :
         ~tasks[s1].result.success /\ tasks[s2].result.success

\* Every task submitted for the catalog has returned and been collected.
AllCollected == \A s \in SitesOf(main.sites) : Collected(s)

\* C17: the summary is emitted only after every submitted task has ended
\* and its result has been collected, and from then on the counters and the
\* error list of the report do not change.
C17_SummaryAfterAllCollected ==
    /\ []( main.pc = "summary" => AllCollected )
    /\ [][ main.pc = "summary" => stats' = stats ]_vars

\* The summary of a run over two sites, one of which failed.
C17_Witness ==
    /\ main.pc = "summary"
    /\ Len(main.sites) = 2
    /\ stats.failed >= 1
    /\ Len(stats.errors) >= 1

\* The tasks that have started and have not returned yet.
StartedNotReturned == { s \in SiteIds : tasks[s].pc \in { "fetching", "streaming" } }

\* The task of site s is entered in this step.
Enters(s) == tasks[s].pc # "fetching" /\ tasks'[s].pc = "fetching"

\* C18: never more tasks are running than max_workers, whatever the size of
\* the catalog; a task is entered only from the queue and never put back
\* in it, so no site is executed twice; at the summary every site of the
\* catalog has been executed and no other site has.
C18_BoundedPoolEachSiteOnce ==
    /\ []( Cardinality(StartedNotReturned) <= main.max_workers )
    /\ [][ \A s \in SiteIds :
             /\ Enters(s) => tasks[s].pc = "pending"
             /\ tasks'[s].pc = "pending" => tasks[s].pc \in { "absent", "pending" } ]_vars
    /\ []( main.pc = "summary" =>
             \A s \in SiteIds :
                IF s \in SitesOf(main.sites) THEN Collected(s)
                                             ELSE tasks[s].pc = "absent" )

\* A pool of one thread and a catalog of two sites: one task runs while the
\* other waits in the queue.
C18_Witness ==
    /\ main.max_workers = 1
    /\ Len(main.sites) = 2
    /\ \E s1, s2 \in SiteIds :
         tasks[s1].pc = "streaming" /\ tasks[s2].pc = "pending"

\* The site tasks whose result the main thread has booked.
Booked == { s \in SiteIds : Collected(s) }

\* A step that changes the counters or the error list books one returned
\* task, and moves exactly one of successful/failed, by one.
BooksOneTask ==
    /\ \E s \in SiteIds :
         /\ tasks[s].pc = "done" /\ tasks'[s].pc = "collected"
         /\ \A o \in SiteIds \ { s } : tasks'[o] = tasks[o]
    /\ \/ stats'.successful = stats.successful + 1 /\ stats'.failed = stats.failed
       \/ stats'.successful = stats.successful /\ stats'.failed = stats.failed + 1

\* C19: the counters change only where the results are collected (never in
\* a step of a worker task); each returned task moves exactly one of
\* successful/failed once; successful + failed is the number of collected
\* tasks, is at most total_sites, and equals total_sites at the summary.
C19_CountersMovedOnlyAtCollection ==
    /\ [][ stats' # stats => ( main.pc = "idle" \/ BooksOneTask ) ]_vars
    /\ [][ \A s \in SiteIds : Collected(s) => tasks'[s] = tasks[s] ]_vars
    /\ []( main.pc # "idle" =>
             /\ stats.successful + stats.failed = Cardinality(Booked)
             /\ stats.successful + stats.failed <= stats.total_sites )
    /\ []( main.pc = "summary" => stats.successful + stats.failed = stats.total_sites )

\* A pool of two threads and a catalog of two sites: the results of both
\* tasks are booked, one as successful and one as failed.
C19_Witness ==
    /\ main.max_workers = 2
    /\ stats.total_sites = 2
    /\ stats.successful = 1
    /\ stats.failed = 1

(***************************************************************************)
(* SpecReport: the result-collection loop and the summary of one run over  *)
(* a catalog of up to MaxReportSites sites.  The site tasks are            *)
(* represented by the tuples they return, taken in completion order.       *)
(***************************************************************************)
MaxReportSites == 6      \* longest catalog of SpecReport

\* The catalogs of SpecReport: sites 1..k.
ReportCatalogs == { [ i \in 1..k |-> i ] : k \in 1..MaxReportSites }

\* The tuples process_site_streaming can return for a site.
ReportResults(site_id) ==
    { FinalResult(site_id, 1),
      FinalResult(site_id, 0),
      ErrorResult(site_id, [ type |-> "ValueError", message |-> << "unparsable time" >> ]) }

\* run_etl_streaming after the tasks of a non-empty catalog were submitted.
InitReport ==
    /\ program = "etl_weather_streaming"
    /\ dry_run = FALSE
    /\ store = EmptyBag
    /\ db_now = 0
    /\ last = NoCall
    /\ fetch = FetchIdle
    /\ norm = NormIdle
    /\ tasks = [ s \in SiteIds |-> TaskAbsent ]
    /\ \E sites \in ReportCatalogs :
         /\ main = [ RunIdle EXCEPT !.pc = "collecting", !.sites = sites ]
         /\ stats = [ InitialStats EXCEPT !.total_sites = Len(sites) ]

\* One pass of the as_completed loop: the next completed future returns res.
ReportCollect(res) ==
    /\ main.pc = "collecting"
    /\ stats.successful + stats.failed < stats.total_sites
    /\ stats' = BookResult(stats, res)
    /\ UNCHANGED << storeVars, fetchVars, main, tasks, normVars >>

\* The loop is over: _print_summary.
ReportPrintSummary ==
    /\ main.pc = "collecting"
    /\ stats.successful + stats.failed = stats.total_sites
    /\ main' = [ main EXCEPT !.pc = "summary", !.summary = print_summary(stats) ]
    /\ UNCHANGED << storeVars, fetchVars, tasks, stats, normVars >>

NextReport ==
    \/ \E res \in ReportResults(stats.successful + stats.failed + 1) : ReportCollect(res)
    \/ ReportPrintSummary

SpecReport == InitReport /\ [][NextReport]_vars

\* C20: the report never stores more than the fixed number of error
\* messages.
C20_StoredErrorsBounded == Len(stats.errors) <= ErrorsShown

\* C20 (as the program behaves): self.stats['errors'] stores the message of
\* every failed task, so its length is the failed count; the bound applies
\* to the summary, which lists the first ErrorsShown stored messages and
\* announces the number of the remaining ones.
C20_SummaryListsBoundedErrors ==
    /\ Len(stats.errors) = stats.failed
    /\ main.pc = "summary" =>
          /\ Len(main.summary.errors) <= ErrorsShown
          /\ Len(main.summary.errors) + main.summary.more = stats.failed
          /\ \A i \in 1..Len(main.summary.errors) : main.summary.errors[i] = stats.errors[i]
          /\ main.summary.more > 0 => Len(main.summary.errors) = ErrorsShown

\* The summary of a run in which more than ErrorsShown tasks failed.
C20_Witness ==
    /\ main.pc = "summary"
    /\ stats.failed > ErrorsShown
    /\ Len(main.summary.errors) = ErrorsShown
    /\ main.summary.more = stats.failed - ErrorsShown

(***************************************************************************)
(* Connections of a persistence call.                                      *)
(***************************************************************************)
\* The connections that are open after the first k events of a log.
OpenAfter(log, k) ==
    Cardinality({ i \in 1..k : log[i] = "open" }) - Cardinality({ i \in 1..k : log[i] = "close" })

\* C21: during a persistence call (single write, batch write, fallback) at
\* most one connection is open at any point, that of the block the call
\* is in; each connection is closed before the next one is opened, and none
\* is open when the call returns, whether it committed, failed to connect or
\* raised in execute/commit.
C21_ConnectionsScoped ==
    last.op # "none" =>
        /\ \A k \in 0..Len(last.conn_log) : OpenAfter(last.conn_log, k) \in { 0, 1 }
        /\ OpenAfter(last.conn_log, Len(last.conn_log)) = 0
        /\ Cardinality({ i \in 1..Len(last.conn_log) :
                           last.conn_log[i] \in { "open", "connect_error" } }) = last.connects
        /\ ( ~dry_run /\ last.input # << >> ) => last.connects >= 1

\* A batch write failed after its connection was opened and the fallback
\* opened one connection per record, one of which was refused.
C21_Witness ==
    /\ last.op = "save_weather_batch_streaming"
    /\ last.batch_failed
    /\ Len(last.input) = 2
    /\ last.connects = 3
    /\ last.conn_log[1] = "open"
    /\ \E i \in 1..Len(last.conn_log) : last.conn_log[i] = "connect_error"

(***************************************************************************)
(* SpecBatching: the streaming loop of one site task, from the moment its  *)
(* fetch has returned a payload, for every payload of ForecastInputs and   *)
(* every STREAMING_BATCH_SIZE from 1 to MaxBatchLen.                       *)
(***************************************************************************)
BatchSizes == 1..MaxBatchLen

\* The task of site 1 after fetch_weather_data returned raw_data at its
\* first attempt and the generator was created.
TaskStreaming(raw_data) ==
    LET f == RetryIteration(FetchStarted("streaming", 1, 1), HttpResponse(200, raw_data))
        g == normalize_weather_data_streaming(raw_data, 1, 1, 1)
    IN  [ TaskAbsent EXCEPT !.pc = "streaming", !.fetch = f,
                            !.gen = g.records, !.gen_exc = g.exc ]

InitBatching ==
    /\ program = "etl_weather_streaming"
    /\ dry_run \in BOOLEAN
    /\ store \in InitialTables
    /\ db_now = 0
    /\ last = NoCall
    /\ fetch = FetchIdle
    /\ norm = NormIdle
    /\ stats = [ InitialStats EXCEPT !.total_sites = 1 ]
    /\ main \in { [ RunIdle EXCEPT !.pc = "collecting", !.sites = << 1 >>,
                                 !.streaming_batch_size = b ] : b \in BatchSizes }
    /\ tasks \in { [ s \in SiteIds |-> IF s = 1 THEN TaskStreaming(p) ELSE TaskAbsent ] :
                     p \in ForecastInputs }

NextBatching ==
    \/ \E dbs \in [ 1..(Len(tasks[1].batch) + 2) -> { "ok", "connect_error" } ] :
          TaskYield(1, dbs)
    \/ \E dbs \in [ 1..(Len(tasks[1].batch) + 1) -> { "ok", "connect_error" } ] :
          TaskGeneratorReturns(1, dbs)
    \/ TaskGeneratorRaises(1)
    \/ CollectResult(1)
    \/ PrintSummary

SpecBatching == InitBatching /\ [][NextBatching]_vars

\* The task has left the streaming loop.
LoopOver(s) == tasks[s].pc \in { "done", "collected" }

\* C22: between two passes of the loop the batch of a task holds fewer than
\* B records (it is saved in the pass in which it reaches B, so it never
\* holds more than B); every batch handed to the store holds between 1 and
\* B records, and every one except the last of a task that has left the
\* loop holds exactly B.
C22_BatchesOfSizeB ==
    \A s \in SiteIds :
       LET B == main.streaming_batch_size
           handed == tasks[s].handed
       IN  /\ Len(tasks[s].batch) < B
           /\ \A i \in 1..Len(handed) :
                 /\ Len(handed[i]) \in 1..B
                 /\ ( i < Len(handed) \/ ~LoopOver(s) ) => Len(handed[i]) = B

\* A payload of more than B records with B = 2: a full batch and then a
\* final batch of one record.
C22_Witness ==
    /\ main.streaming_batch_size = 2
    /\ LoopOver(1)
    /\ Len(tasks[1].handed) >= 2
    /\ Len(tasks[1].handed[1]) = 2
    /\ Len(tasks[1].handed[Len(tasks[1].handed)]) = 1

\* The records of a sequence of batches, in the order they were handed over.
RECURSIVE Concat(_)
Concat(batches) ==
    IF batches = << >> THEN << >> ELSE Head(batches) \o Concat(Tail(batches))

\* The task of site s has a payload: its fetch has returned.
HasPayload(s) ==
    tasks[s].pc \in { "streaming", "done", "collected" } /\ tasks[s].fetch.outcome.kind = "return"

\* What the normalizer yields for the payload of the task of site s.
Normalized(s) ==
    normalize_weather_data_streaming(tasks[s].fetch.outcome.value, s, 1, 1).records

\* s is a prefix of t.
IsPrefix(s, t) == Len(s) <= Len(t) /\ SubSeq(t, 1, Len(s)) = s

\* C23: the batches of a site task are handed to the store in the order of
\* normalization: put end to end they are the first records the normalizer
\* yields, without gap or swap (the current record first, then the hours in
\* array order); and each store call has returned before the next batch is
\* handed over, so every batch before the latest has its result.
C23_BatchesInNormalizationOrder ==
    \A s \in SiteIds :
       HasPayload(s) =>
          /\ IsPrefix(Concat(tasks[s].handed), Normalized(s))
          /\ ~LoopOver(s) =>
                Concat(tasks[s].handed) \o tasks[s].batch \o tasks[s].gen = Normalized(s)
          /\ Len(tasks[s].flushed) = Len(tasks[s].handed)
          /\ \A k \in 1..Len(tasks[s].handed) :
                tasks[s].flushed[k][2] = Len(tasks[s].handed[k])

\* With B = 1, three batches were handed over: the current record, then the
\* first and the second hour.
C23_Witness ==
    /\ main.streaming_batch_size = 1
    /\ Len(tasks[1].handed) = 3
    /\ tasks[1].handed[1][1].data_type = "current"
    /\ tasks[1].handed[2][1].data_type = "hourly"
    /\ tasks[1].handed[2][1].observation_time < tasks[1].handed[3][1].observation_time

\* The task of site s has ended because its normalizer raised.
NormalizationFailed(s) == LoopOver(s) /\ HasPayload(s) /\ tasks[s].gen_exc # NoException

\* C24: a task whose normalizer raises after batches were handed to the
\* store ends failed with the error in its message, which the report takes
\* over when the task is collected; the step that ends the task leaves the
\* table as it is, so no row is rolled back or deleted.
C24_NormalizationErrorKeepsRows ==
    /\ []( \A s \in SiteIds :
             NormalizationFailed(s) =>
                /\ tasks[s].result = ErrorResult(s, tasks[s].gen_exc)
                /\ ~tasks[s].result.success
                /\ Collected(s) =>
                      \E i \in 1..Len(stats.errors) :
                         stats.errors[i] = << "Error procesando", s, tasks[s].gen_exc.message >> )
    /\ [][ \A s \in SiteIds :
             ( ~LoopOver(s) /\ NormalizationFailed(s)' ) =>
                ( store' = store /\ db_now' = db_now ) ]_vars

\* The normalizer raised after a batch had been handed to the store, with
\* a row in the table.
C24_Witness ==
    /\ ~dry_run
    /\ NormalizationFailed(1)
    /\ Len(tasks[1].handed) >= 1
    /\ store # EmptyBag

\* C25: when the normalizer raises, every record it had yielded before has
\* been handed to the store, those of a batch that was not yet full
\* included.
C25_YieldedRecordsHandedOver ==
    \A s \in SiteIds :
       NormalizationFailed(s) => Concat(tasks[s].handed) = Normalized(s)

\* What the program does instead: only the full batches were handed over;
\* the records yielded after the last full batch are left in the batch and
\* never saved.
YieldedRecordsOfPartialBatchDropped ==
    \A s \in SiteIds :
       NormalizationFailed(s) =>
          LET B == main.streaming_batch_size
              k == Len(Normalized(s))
          IN  /\ Concat(tasks[s].handed) = SubSeq(Normalized(s), 1, k - (k % B))
              /\ tasks[s].batch = SubSeq(Normalized(s), k - (k % B) + 1, k)

\* C26: no persistence call retries.  A single write makes one attempt
\* (one connection, at most one statement).  A batch write makes one
\* attempt for the whole list and, only when that one failed, one single
\* write per record of the list, in list order: a record is submitted at
\* most twice, and a record whose single write failed is counted as unsaved.
\* (In dry-run nothing is submitted at all.)
C26_NoRetryInStore ==
    LET n == Len(last.input)
    IN  /\ last.op \in { "save_weather_data", "save_weather_record_streaming" } =>
              /\ last.connects = IF dry_run THEN 0 ELSE 1
              /\ last.sent <= last.connects
        /\ last.op = "save_weather_batch_streaming" =>
              /\ last.connects =
                    IF dry_run \/ n = 0 THEN 0 ELSE IF last.batch_failed THEN 1 + n ELSE 1
              /\ last.sent <= last.connects
              /\ last.batch_failed =>
                    /\ last.issued = last.input
                    /\ Len(last.oks) = n
                    /\ last.result = << Cardinality({ i \in 1..n : last.oks[i] }), n >>
              /\ ~last.batch_failed => last.issued = << >>

\* A batch of two records whose batch write failed and whose two single
\* writes failed as well: three attempts in all, both records unsaved.
C26_Witness ==
    /\ last.op = "save_weather_batch_streaming"
    /\ last.batch_failed
    /\ last.oks = << FALSE, FALSE >>
    /\ last.result = << 0, 2 >>
    /\ last.connects = 3

\* The last call was a successful single write whose key was in the table.
UpsertHitExistingRow ==
    /\ last.op \in UpsertOneOps
    /\ ~dry_run
    /\ LastSucceeded
    /\ CopiesOfRecordKey(last.before, last.input[1]) = 1

\* The rows of the table that do not carry the key of record rec.
RowsOfOtherKeys(table, rec) == BagToSet(table) \ RowsOfRecordKey(table, rec)

\* C27: an upsert that hits an existing row leaves the row under its key
\* (site_id, source, observation_time): the table still has exactly one row
\* of that key and as many rows as before; every row of another key is as it
\* was; and the row that was hit carries audit_updated_by = 'etl_job' and the
\* time of the statement in audit_updated_dttm.
C27_UpsertKeepsKeyAndOtherRows ==
    UpsertHitExistingRow =>
        LET rec == last.input[1]
        IN  /\ CopiesOfRecordKey(store, rec) = 1
            /\ RowCount(store) = RowCount(last.before)
            /\ \A old \in RowsOfRecordKey(last.before, rec), row \in RowsOfRecordKey(store, rec) :
                  UniqueKey(row) = UniqueKey(old)
            /\ RowsOfOtherKeys(store, rec) = RowsOfOtherKeys(last.before, rec)
            /\ \A row \in RowsOfOtherKeys(store, rec) :
                  CopiesIn(row, store) = CopiesIn(row, last.before)
            /\ \A row \in RowsOfRecordKey(store, rec) :
                  /\ row["audit_updated_by"] = Some("etl_job")
                  /\ row["audit_updated_dttm"] = Some(db_now)
                  /\ \A old \in RowsOfRecordKey(last.before, rec) :
                        old["audit_updated_dttm"] # row["audit_updated_dttm"]

\* An upsert hit the row of its key while the table held a row of another
\* key.
C27_Witness ==
    /\ UpsertHitExistingRow
    /\ RowsOfOtherKeys(last.before, last.input[1]) # {}
    /\ RowCount(store) = 2

\* The phases of a site task in their order: submitted, in fetch_weather_data,
\* in the streaming loop (normalizing and saving), returned.
PhaseRank(pc) ==
    CASE pc = "absent"    -> 0
      [] pc = "pending"   -> 1
      [] pc = "fetching"  -> 2
      [] pc = "streaming" -> 3
      [] pc = "done"      -> 4
      [] pc = "collected" -> 4

\* C28: a site task moves through its phases forward only; no record is
\* normalized or handed to the store unless the fetch has returned a payload,
\* and a task that is fetching has produced no record; the fetch makes at
\* most 3 requests; a task that has returned keeps its one outcome; and
\* every submitted task returns, whatever fails.
C28_PhasesForwardAndTerminate ==
    /\ [][ \A s \in SiteIds :
             /\ PhaseRank(tasks'[s].pc) >= PhaseRank(tasks[s].pc)
             /\ LoopOver(s) => tasks'[s].result = tasks[s].result ]_vars
    /\ []( \A s \in SiteIds :
             /\ ( tasks[s].records_processed > 0 \/ tasks[s].handed # << >> ) => HasPayload(s)
             /\ tasks[s].pc = "fetching" =>
                   ( tasks[s].records_processed = 0 /\ tasks[s].handed = << >> )
             /\ tasks[s].fetch.requests <= StopAttempts
             /\ LoopOver(s) <=> tasks[s].result # NoResult )
    /\ \A s \in SiteIds : ( tasks[s].pc = "pending" ) ~> LoopOver(s)

\* A task whose first request failed and whose second returned a payload
\* has saved two batches and returned.
C28_Witness ==
    \E s \in SiteIds :
       /\ LoopOver(s)
       /\ tasks[s].fetch.requests = 2
       /\ HasPayload(s)
       /\ Len(tasks[s].handed) = 2
       /\ tasks[s].result.success

\* The sum of the totals of the (successful, total) pairs the store returned.
RECURSIVE SumTotals(_)
SumTotals(flushed) ==
    IF flushed = << >> THEN 0 ELSE Head(flushed)[2] + SumTotals(Tail(flushed))

\* The task of site s has returned after its normalizer ended without error.
NormalizationCompleted(s) == LoopOver(s) /\ HasPayload(s) /\ tasks[s].gen_exc = NoException

\* C29: when the normalizer ends without error, the batches handed to the
\* store, put end to end, are exactly the records it yielded (none left
\* out, none twice), and the totals the store returned add up to the number
\* of records normalized, which is records_processed.
C29_EveryRecordInOneBatch ==
    \A s \in SiteIds :
       NormalizationCompleted(s) =>
          /\ Concat(tasks[s].handed) = Normalized(s)
          /\ SumTotals(tasks[s].flushed) = Len(Normalized(s))
          /\ tasks[s].records_processed = Len(Normalized(s))

\* Three records were normalized and handed over in a batch of two and a
\* batch of one, outside dry-run.
C29_Witness ==
    /\ ~dry_run
    /\ NormalizationCompleted(1)
    /\ Len(Normalized(1)) = 3
    /\ tasks[1].flushed = << << 0, 2 >>, << 0, 1 >> >>

\* The sum of f over the sites of S.
RECURSIVE SumOver(_, _)
SumOver(S, f) ==
    IF S = {} THEN 0
    ELSE LET s == CHOOSE x \in S : TRUE
         IN  f[s] + SumOver(S \ { s }, f)

\* The sites whose task has been booked as succeeded.
BookedSucceeded == { s \in SiteIds : Collected(s) /\ tasks[s].result.success }

\* The records the normalizer of each task has yielded so far.
YieldedBy == [ s \in SiteIds |-> tasks[s].records_processed ]

\* C30: the report's records_processed is the sum, over the tasks booked
\* as succeeded, of the records each one normalized; a failed task adds 0,
\* also when it had handed batches to the store; the total never exceeds
\* the records normalized in the run.
C30_RecordsProcessedOfSucceededTasks ==
    /\ stats.records_processed = SumOver(BookedSucceeded, YieldedBy)
    /\ \A s \in BookedSucceeded : tasks[s].records_processed = Len(Normalized(s))
    /\ \A s \in SiteIds : ( LoopOver(s) /\ ~tasks[s].result.success ) => tasks[s].result.records = 0
    /\ stats.records_processed <= SumOver(SiteIds, YieldedBy)

\* The summary of a run of two sites: one normalized three records and
\* succeeded, the other failed after it had handed a batch to the store.
C30_Witness ==
    /\ main.pc = "summary"
    /\ stats.records_processed = 3
    /\ stats.successful = 1
    /\ \E s \in SiteIds :
         /\ Collected(s)
         /\ ~tasks[s].result.success
         /\ Len(tasks[s].handed) >= 1

(***************************************************************************)
(* Independence of the site tasks of a run.                                *)
(***************************************************************************)
\* The records the task of site s has handed to the store.
HandedRecords(s) ==
    LET recs == Concat(tasks[s].handed) IN { recs[i] : i \in 1..Len(recs) }

\* The table after the batches of one task have been saved one after the
\* other, the database answering every connection.
RECURSIVE ReplayTask(_, _, _, _)
ReplayTask(table, now, dry, batches) ==
    IF batches = << >>
    THEN [ table |-> table, now |-> now ]
    ELSE Only({ ReplayTask(r.table, r.now, dry, Tail(batches)) :
                  r \in { save_weather_batch_streaming(table, now, dry, Head(batches),
                                                       [ i \in 1..(Len(Head(batches)) + 1) |-> "ok" ]) } })

\* The table after the tasks of the sites of the list have run one after
\* the other, each handing over the batches it handed over in this run.
RECURSIVE ReplayRun(_, _, _, _)
ReplayRun(table, now, dry, sites) ==
    IF sites = << >>
    THEN table
    ELSE Only({ ReplayRun(r.table, r.now, dry, Tail(sites)) :
                  r \in { ReplayTask(table, now, dry, tasks[Head(sites)].handed) } })

Reverse(seq) == [ i \in 1..Len(seq) |-> seq[Len(seq) + 1 - i] ]

\* The task of site s takes this step.
Steps(s) == tasks'[s] # tasks[s]

\* C31: the site tasks of a run do not interfere in the table.  The records
\* handed to the store by two different tasks never have the same key
\* (site_id, observation_time); a step changes only rows of the site whose
\* task takes it; and the table at the summary is the one the tasks leave
\* when they run one after the other, in catalog order or in the reverse
\* order, so it does not depend on the interleaving or the completion order.
C31_TasksDoNotInterfere ==
    /\ []( \A s1, s2 \in SiteIds :
             s1 # s2 =>
                \A r1 \in HandedRecords(s1), r2 \in HandedRecords(s2) :
                   \/ r1.site_id # r2.site_id
                   \/ r1.observation_time # r2.observation_time )
    /\ []( \A s \in SiteIds : \A r \in HandedRecords(s) : r.site_id = s )
    /\ [][ \A row \in BagToSet(store) \cup BagToSet(store') :
             CopiesIn(row, store') # CopiesIn(row, store) =>
                \E s \in SiteIds : Steps(s) /\ row["site_id"] = s ]_vars
    /\ []( main.pc = "summary" =>
             /\ store = ReplayRun(EmptyBag, 0, dry_run, main.sites)
             /\ store = ReplayRun(EmptyBag, 0, dry_run, Reverse(main.sites)) )

\* The summary of a run over sites 1 and 2 in which both tasks handed
\* batches to the store and the task of site 2 was collected before the
\* task of site 1.
C31_Witness ==
    /\ main.pc = "summary"
    /\ main.sites = << 1, 2 >>
    /\ Len(tasks[1].handed) >= 1
    /\ Len(tasks[2].handed) >= 1
    /\ Len(stats.errors) = 2
    /\ stats.errors[1][2] = 2
=============================================================================
